---------------------------- MODULE Spec2Model ----------------------------
(***************************************************************************)
(* Bulk lead-import pipeline of global-connect-crm (server/routes.ts):     *)
(* processBulkLeadImport, its field normalizers, the business rules and    *)
(* the store it writes to.                                                 *)
(*                                                                         *)
(* JavaScript strings are sequences of one-character strings, so that      *)
(* trim, toLowerCase, includes and the regular expressions act on the      *)
(* characters.  A JSON value is a record [t, s]: t names the JavaScript    *)
(* type and s holds the characters of a string.                            *)
(***************************************************************************)
EXTENDS Integers, Sequences, FiniteSets, TLC

(* ------------------------------ bounds -------------------------------- *)

\* Longest input array of one run.
MaxRows == 2

\* Largest chunk size a caller passes (the smallest is -1, see ChunkSizes).
MaxChunkSize == 3

\* Longest input array of a run that is followed up to the end of its chunking.
MaxChunkingRows == 4

\* The users the store holds at most.
MaxUsers == 4

\* The addFieldIssue calls made one by one.
MaxCalls == 7

\* The calls of assignLeadToCounselor and updateLeadStage in one behaviour.
MaxRouteCalls == 2

(* ------------------------- program constants -------------------------- *)

\* addFieldIssue keeps the first five samples of a field.
MaxSamples == 5

\* normalizePhone warns below ten digits.
MinPhoneDigits == 10

(* --------------------------- JSON values ------------------------------ *)

Undef == [t |-> "undefined", s |-> <<>>]

Null == [t |-> "null", s |-> <<>>]

Str(s) == [t |-> "string", s |-> s]

\* A non-zero JSON number: truthy, and it has no trim method.
Num == [t |-> "number", s |-> <<>>]

\* new Date() taken from the clock.
DateNow == [t |-> "date-now", s |-> <<>>]

\* A Date parsed from the characters s.
DateOf(s) == [t |-> "date", s |-> s]

\* JavaScript truthiness of a value, as the && and || operators test it.
Truthy(v) ==
    \/ v.t \in {"number", "date", "date-now", "function", "object"}
    \/ (v.t = "string" /\ v.s # <<>>)

(* ------------------------- string primitives -------------------------- *)

Digits == {"0", "1", "2", "3", "4", "5", "6", "7", "8", "9"}

DigitVal == "0" :> 0 @@ "1" :> 1 @@ "2" :> 2 @@ "3" :> 3 @@ "4" :> 4 @@
            "5" :> 5 @@ "6" :> 6 @@ "7" :> 7 @@ "8" :> 8 @@ "9" :> 9

\* The characters \s matches among those the inputs use.
Whitespace == {" "}

UpperToLower == "A" :> "a" @@ "B" :> "b" @@ "C" :> "c" @@ "D" :> "d" @@ "E" :> "e" @@ "F" :> "f" @@ "G" :> "g" @@ "H" :> "h" @@ "I" :> "i" @@ "J" :> "j" @@ "K" :> "k" @@ "L" :> "l" @@ "M" :> "m" @@ "N" :> "n" @@ "O" :> "o" @@ "P" :> "p" @@ "Q" :> "q" @@ "R" :> "r" @@ "S" :> "s" @@ "T" :> "t" @@ "U" :> "u" @@ "V" :> "v" @@ "W" :> "w" @@ "X" :> "x" @@ "Y" :> "y" @@ "Z" :> "z"

Min(S) == CHOOSE x \in S : \A y \in S : x <= y

RECURSIVE TrimStart(_)
TrimStart(s) == IF s # <<>> /\ Head(s) \in Whitespace THEN TrimStart(Tail(s)) ELSE s

RECURSIVE TrimEnd(_)
TrimEnd(s) ==
    IF s # <<>> /\ s[Len(s)] \in Whitespace THEN TrimEnd(SubSeq(s, 1, Len(s) - 1)) ELSE s

\* String.prototype.trim
Trim(s) == TrimEnd(TrimStart(s))

\* String.prototype.toLowerCase
ToLowerCase(s) ==
    [k \in 1..Len(s) |-> IF s[k] \in DOMAIN UpperToLower THEN UpperToLower[s[k]] ELSE s[k]]

\* String.prototype.includes
Includes(s, sub) ==
    \E k \in 0..(Len(s) - Len(sub)) : SubSeq(s, k + 1, k + Len(sub)) = sub

\* The characters of s that are in the set keep, in order (replace(/[^...]/g, '')).
RECURSIVE Keep(_, _)
Keep(s, keep) ==
    IF s = <<>> THEN <<>>
    ELSE (IF Head(s) \in keep THEN <<Head(s)>> ELSE <<>>) \o Keep(Tail(s), keep)

\* Whether pattern pat matches s at position k; "#" in pat stands for \d.
MatchesAt(s, k, pat) ==
    /\ k >= 1
    /\ k + Len(pat) - 1 <= Len(s)
    /\ \A j \in 1..Len(pat) :
          IF pat[j] = "#" THEN s[k + j - 1] \in Digits ELSE s[k + j - 1] = pat[j]

\* The positions at which pat matches s.
Matches(s, pat) == {k \in 1..Len(s) : MatchesAt(s, k, pat)}

\* Probe without the `rawLead.f &&` guard: trim is called on whatever f holds.
ProbeUnguarded(v) ==
    IF v.t # "string" THEN "throw"
    ELSE IF Trim(v.s) = <<>> THEN "blank"
    ELSE "present"

\* `rawLead.f && rawLead.f.trim()`: "blank" when the guard is falsy, "present"
\* when it is truthy, "throw" when f is truthy and not a string (no trim method).
Probe(v) ==
    IF ~Truthy(v) THEN "blank"
    ELSE IF v.t # "string" THEN "throw"
    ELSE IF Trim(v.s) = <<>> THEN "blank"
    ELSE "present"

(* ------------------------------ messages ------------------------------ *)

\* A log message: its fixed text k and the two values interpolated into it.
Msg(k, a, b) == [k |-> k, a |-> a, b |-> b]

\* The message of the TypeError "x.trim is not a function".
TypeErrorMessage == Msg("trim is not a function", <<>>, <<>>)

(* ---------------------------- field issues ---------------------------- *)

\* The field names addFieldIssue is called with.
IssueFields == {"uid", "leadCreatedDate", "intake", "country", "phone", "email"}

\* `const fieldIssues = {}`: count 0 stands for a key not yet present.
NoFieldIssues == [f \in IssueFields |-> [count |-> 0, samples |-> <<>>]]

\* addFieldIssue with `<=` for `<` in line 500: a sixth sample is kept.
addFieldIssueOneMore(fieldIssues, fieldName, issue) ==
    LET cur == fieldIssues[fieldName]
    IN  [fieldIssues EXCEPT ![fieldName] =
            [count |-> cur.count + 1,
             samples |-> IF Len(cur.samples) <= MaxSamples
                         THEN Append(cur.samples, issue)
                         ELSE cur.samples]]

addFieldIssue(fieldIssues, fieldName, issue) ==
    LET cur == fieldIssues[fieldName]
    IN  [fieldIssues EXCEPT ![fieldName] =
            [count |-> cur.count + 1,
             samples |-> IF Len(cur.samples) < MaxSamples
                         THEN Append(cur.samples, issue)
                         ELSE cur.samples]]

(* ---------------------------- normalizers ----------------------------- *)

\* What a normalizer returns together with the log and tally it appended to.
Out(value, log, fieldIssues) == [value |-> value, log |-> log, fieldIssues |-> fieldIssues]

PushFix(log, m) == [log EXCEPT !.fixesApplied = Append(@, m)]

PushWarning(log, m) == [log EXCEPT !.warnings = Append(@, m)]

PushError(log, m) == [log EXCEPT !.errors = Append(@, m)]

\* (new Date().getFullYear() + 1).toString() for a run in 2026.
NextYear == <<"2","0","2","7">>

\* Object.entries(seasonMap), in insertion order.
SeasonMap == <<
    <<<<"f","a","l","l">>, <<"F","a","l","l">>>>, <<<<"a","u","t","u","m","n">>, <<"F","a","l","l">>>>, <<<<"s","e","p">>, <<"F","a","l","l">>>>,
    <<<<"s","e","p","t","e","m","b","e","r">>, <<"F","a","l","l">>>>, <<<<"s","p","r","i","n","g">>, <<"S","p","r","i","n","g">>>>, <<<<"j","a","n">>, <<"S","p","r","i","n","g">>>>,
    <<<<"j","a","n","u","a","r","y">>, <<"S","p","r","i","n","g">>>>, <<<<"s","u","m","m","e","r">>, <<"S","u","m","m","e","r">>>>, <<<<"m","a","y">>, <<"S","u","m","m","e","r">>>>,
    <<<<"j","u","n">>, <<"S","u","m","m","e","r">>>>, <<<<"w","i","n","t","e","r">>, <<"W","i","n","t","e","r">>>>, <<<<"d","e","c">>, <<"W","i","n","t","e","r">>>>,
    <<<<"d","e","c","e","m","b","e","r">>, <<"W","i","n","t","e","r">>>> >>

\* normalizeIntake with the result compared to the lower-cased text in line 411.
normalizeIntakeComparesLowerCase(intake, log, fieldIssues) ==
    LET original == intake
        normalized == ToLowerCase(intake)
        yearAt == Matches(normalized, <<"#", "#", "#", "#">>)
        year == IF yearAt # {} THEN SubSeq(normalized, Min(yearAt), Min(yearAt) + 3)
                ELSE NextYear
        log1 == IF yearAt # {} THEN log
                ELSE PushFix(log, Msg("Added missing year to intake", year, <<>>))
        hits == {k \in 1..Len(SeasonMap) : Includes(normalized, SeasonMap[k][1])}
        season == IF hits # {} THEN SeasonMap[Min(hits)][2] ELSE <<"F","a","l","l">>
        log2 == IF hits # {} THEN log1
                ELSE PushFix(log1, Msg("Added default season Fall to intake", <<>>, <<>>))
        result == year \o <<"-">> \o season
    IN  IF result # normalized
        THEN Out(result,
                 PushFix(log2, Msg("Normalized intake", original, result)),
                 addFieldIssue(fieldIssues, "intake", Msg("Normalized", original, result)))
        ELSE Out(result, log2, fieldIssues)

normalizeIntake(intake, log, fieldIssues) ==
    LET original == intake
        normalized == ToLowerCase(intake)
        yearAt == Matches(normalized, <<"#", "#", "#", "#">>)
        year == IF yearAt # {} THEN SubSeq(normalized, Min(yearAt), Min(yearAt) + 3)
                ELSE NextYear
        log1 == IF yearAt # {} THEN log
                ELSE PushFix(log, Msg("Added missing year to intake", year, <<>>))
        hits == {k \in 1..Len(SeasonMap) : Includes(normalized, SeasonMap[k][1])}
        season == IF hits # {} THEN SeasonMap[Min(hits)][2] ELSE <<"F","a","l","l">>
        log2 == IF hits # {} THEN log1
                ELSE PushFix(log1, Msg("Added default season Fall to intake", <<>>, <<>>))
        result == year \o <<"-">> \o season
    IN  IF result # original
        THEN Out(result,
                 PushFix(log2, Msg("Normalized intake", original, result)),
                 addFieldIssue(fieldIssues, "intake", Msg("Normalized", original, result)))
        ELSE Out(result, log2, fieldIssues)

\* countryMap: alias (lower case) and ISO-2 code.
CountryMap == <<
    <<<<"u","n","i","t","e","d"," ","s","t","a","t","e","s">>, <<"U","S">>>>, <<<<"u","s","a">>, <<"U","S">>>>, <<<<"a","m","e","r","i","c","a">>, <<"U","S">>>>,
    <<<<"u","n","i","t","e","d"," ","s","t","a","t","e","s"," ","o","f"," ","a","m","e","r","i","c","a">>, <<"U","S">>>>,
    <<<<"u","n","i","t","e","d"," ","k","i","n","g","d","o","m">>, <<"G","B">>>>, <<<<"u","k">>, <<"G","B">>>>, <<<<"e","n","g","l","a","n","d">>, <<"G","B">>>>,
    <<<<"b","r","i","t","a","i","n">>, <<"G","B">>>>,
    <<<<"g","e","r","m","a","n","y">>, <<"D","E">>>>, <<<<"d","e","u","t","s","c","h","l","a","n","d">>, <<"D","E">>>>,
    <<<<"f","r","a","n","c","e">>, <<"F","R">>>>, <<<<"f","r","a","n","c","i","a">>, <<"F","R">>>>,
    <<<<"i","n","d","i","a">>, <<"I","N">>>>, <<<<"b","h","a","r","a","t">>, <<"I","N">>>>,
    <<<<"c","h","i","n","a">>, <<"C","N">>>>, <<<<"p","r","c">>, <<"C","N">>>>,
    <<<<"c","a","n","a","d","a">>, <<"C","A">>>>,
    <<<<"a","u","s","t","r","a","l","i","a">>, <<"A","U">>>>, <<<<"a","u","s">>, <<"A","U">>>>,
    <<<<"j","a","p","a","n">>, <<"J","P">>>>, <<<<"n","i","p","p","o","n">>, <<"J","P">>>>,
    <<<<"s","o","u","t","h"," ","k","o","r","e","a">>, <<"K","R">>>>, <<<<"k","o","r","e","a">>, <<"K","R">>>>,
    <<<<"b","r","a","z","i","l">>, <<"B","R">>>>, <<<<"b","r","a","s","i","l">>, <<"B","R">>>>,
    <<<<"m","e","x","i","c","o">>, <<"M","X">>>>, <<<<"m","é","x","i","c","o">>, <<"M","X">>>>,
    <<<<"r","u","s","s","i","a">>, <<"R","U">>>>, <<<<"r","u","s","s","i","a","n"," ","f","e","d","e","r","a","t","i","o","n">>, <<"R","U">>>> >>

\* countryMap is an object literal: a key it does not hold is looked up in
\* Object.prototype.  Of the names found there the lower-cased key can be
\* `constructor` (the function Object) and `__proto__` (Object.prototype).
Inherited(key) ==
    CASE key = <<"c","o","n","s","t","r","u","c","t","o","r">> -> [t |-> "function",
                                  s |-> <<"f","u","n","c","t","i","o","n"," ","O","b","j","e","c","t","(",")"," ">> \o <<"{">>
                                        \o <<" ","[","n","a","t","i","v","e"," ","c","o","d","e","]"," ">> \o <<"}">>]
      [] key = <<"_","_","p","r","o","t","o","_","_">> -> [t |-> "object", s |-> <<"[","o","b","j","e","c","t"," ","O","b","j","e","c","t","]">>]
      [] OTHER -> Undef

\* The value is a string, or what countryMap inherits for the key; s holds
\* the text a template literal writes for it.
normalizeCountry(country, log, fieldIssues) ==
    LET original == country
        normalized == Trim(ToLowerCase(country))
        found == {k \in 1..Len(CountryMap) : CountryMap[k][1] = normalized}
        mapped == IF found # {} THEN Str(CountryMap[Min(found)][2])
                  ELSE Inherited(normalized)
    IN  IF Truthy(mapped)
        THEN IF mapped # Str(original)
             THEN Out(mapped,
                      PushFix(log, Msg("Normalized country", original, mapped.s)),
                      addFieldIssue(fieldIssues, "country",
                                    Msg("Normalized", original, mapped.s)))
             ELSE Out(mapped, log, fieldIssues)
        ELSE Out(Str(original),
                 PushWarning(log, Msg("Country could not be normalized to ISO code",
                                      original, <<>>)),
                 addFieldIssue(fieldIssues, "country",
                               Msg("Unknown country", original, <<>>)))

normalizePhone(phone, log, fieldIssues) ==
    LET original == phone
        normalized == Keep(phone, Digits \cup {"+"})
        digitCount == Len(Keep(normalized, Digits))
        short == digitCount < MinPhoneDigits
        log1 == IF short
                THEN PushWarning(log, Msg("Phone number appears to be too short",
                                          original, <<>>))
                ELSE log
        fi1 == IF short
               THEN addFieldIssue(fieldIssues, "phone", Msg("Too short", original, <<>>))
               ELSE fieldIssues
    IN  IF normalized # original
        THEN Out(normalized,
                 PushFix(log1, Msg("Cleaned phone number", original, normalized)), fi1)
        ELSE Out(normalized, log1, fi1)

\* /^[^\s@]+@[^\s@]+\.[^\s@]+$/.test(s)
EmailRegexTest(s) ==
    /\ \A k \in 1..Len(s) : s[k] \notin Whitespace
    /\ Cardinality({k \in 1..Len(s) : s[k] = "@"}) = 1
    /\ LET at == Min({k \in 1..Len(s) : s[k] = "@"})
       IN  /\ at > 1
           /\ \E dot \in (at + 2)..(Len(s) - 1) : s[dot] = "."

\* The value is Null for an invalid email.
normalizeEmail(email, log, fieldIssues) ==
    LET original == email
        normalized == Trim(ToLowerCase(email))
    IN  IF ~EmailRegexTest(normalized)
        THEN Out(Null,
                 PushWarning(log, Msg("Email appears to be invalid format", original, <<>>)),
                 addFieldIssue(fieldIssues, "email",
                               Msg("Invalid format", original, <<>>)))
        ELSE IF normalized # original
        THEN Out(Str(normalized),
                 PushFix(log, Msg("Normalized email", original, normalized)), fieldIssues)
        ELSE Out(Str(normalized), log, fieldIssues)

(* ------------------------------- dates -------------------------------- *)

\* new Date(s) is a valid date.  ECMAScript fixes the parse of the ISO form
\* YYYY-MM-DD only; every other string is taken as unparseable, which is what
\* V8 answers for the day-first and compact forms the rewrites below handle.
DateParses(s) ==
    /\ Len(s) = 10
    /\ MatchesAt(s, 1, <<"#", "#", "#", "#", "-", "#", "#", "-", "#", "#">>)
    /\ 10 * DigitVal[s[6]] + DigitVal[s[7]] \in 1..12
    /\ 10 * DigitVal[s[9]] + DigitVal[s[10]] \in 1..31

\* s.replace(/(\d{2})<sep>(\d{2})<sep>(\d{4})/, '$3-$2-$1')
RewriteDayFirst(s, sep) ==
    LET at == Matches(s, <<"#", "#", sep, "#", "#", sep, "#", "#", "#", "#">>)
        k == Min(at)
    IN  IF at = {} THEN s
        ELSE SubSeq(s, 1, k - 1) \o SubSeq(s, k + 6, k + 9) \o <<"-">>
             \o SubSeq(s, k + 3, k + 4) \o <<"-">> \o SubSeq(s, k, k + 1)
             \o SubSeq(s, k + 10, Len(s))

\* s.replace(/(\d{4})(\d{2})(\d{2})/, '$1-$2-$3')
RewriteCompact(s) ==
    LET at == Matches(s, <<"#", "#", "#", "#", "#", "#", "#", "#">>)
        k == Min(at)
    IN  IF at = {} THEN s
        ELSE SubSeq(s, 1, k - 1) \o SubSeq(s, k, k + 3) \o <<"-">>
             \o SubSeq(s, k + 4, k + 5) \o <<"-">> \o SubSeq(s, k + 6, k + 7)
             \o SubSeq(s, k + 8, Len(s))

\* The date block of normalizeAndValidateLead for a truthy leadCreatedDate:
\* the parsed date, or Null when every attempt fails (the inner catch).
ParseLeadCreatedDate(v) ==
    IF v.t = "number" THEN DateOf(<<>>)
    ELSE IF v.t # "string" THEN Null
    ELSE IF DateParses(v.s) THEN DateOf(v.s)
    ELSE LET commonFormats == <<RewriteDayFirst(v.s, "/"), RewriteDayFirst(v.s, "-"),
                                RewriteCompact(v.s)>>
             ok == {k \in 1..3 : DateParses(commonFormats[k])}
         IN  IF ok # {} THEN DateOf(commonFormats[Min(ok)]) ELSE Null

(* --------------------- record validator/normalizer -------------------- *)

\* `const normalized = {}`: every field still undefined.
EmptyNormalized ==
    [uid |-> Undef, name |-> Undef, currentStage |-> Undef, leadCreatedDate |-> Undef,
     intake |-> Undef, country |-> Undef, phone |-> Undef, email |-> Undef,
     source |-> Undef, passportStatus |-> Undef, remarks |-> Undef,
     counsellors |-> Undef]

\* `UID-<<"t","i","m","e","s","t","a","m","p",".","t","o","S","t","r","i","n","g","(",")",".","s","l","i","c","e","(","-","6",")",".","p","a","d","S","t","a","r","t","(","6",","," ","'","0","'",")">>`: the six digits come
\* from the clock and stand here as zeros.
GeneratedUid == <<"U","I","D","-","0","0","0","0","0","0">>

YetToAssign == <<"Y","e","t"," ","t","o"," ","A","s","s","i","g","n">>

YetToContact == <<"Y","e","t"," ","t","o"," ","C","o","n","t","a","c","t">>

\* A TypeError leaves normalizeAndValidateLead at once.
Throw(r) == [r EXCEPT !.thrown = TRUE]

UidStep(rawLead, r) ==
    CASE Probe(rawLead.uid) = "throw" -> Throw(r)
           [] Probe(rawLead.uid) = "present" ->
                [r EXCEPT !.normalized.uid = Str(Trim(rawLead.uid.s))]
           [] OTHER ->
                [r EXCEPT !.normalized.uid = Str(GeneratedUid),
                          !.log = PushFix(@, Msg("Generated missing UID", <<>>, <<>>)),
                          !.fieldIssues = addFieldIssue(@, "uid",
                              Msg("Missing UID - generated automatically", <<>>, <<>>))]

\* NameStep with a missing name treated as fatal: the error is logged and the
\* row is given up.
NameStepFatal(rawLead, r) ==
    CASE Probe(rawLead.studentName) = "throw" -> Throw(r)
           [] Probe(rawLead.studentName) = "present" ->
                [r EXCEPT !.normalized.name = Str(Trim(rawLead.studentName.s))]
           [] Probe(rawLead.name) = "throw" -> Throw(r)
           [] Probe(rawLead.name) = "present" ->
                [r EXCEPT !.normalized.name = Str(Trim(rawLead.name.s))]
           [] OTHER ->
                Throw([r EXCEPT !.log = PushError(@, Msg("Missing required student name",
                                                         <<>>, <<>>))])

NameStep(rawLead, r) ==
    CASE Probe(rawLead.studentName) = "throw" -> Throw(r)
           [] Probe(rawLead.studentName) = "present" ->
                [r EXCEPT !.normalized.name = Str(Trim(rawLead.studentName.s))]
           [] Probe(rawLead.name) = "throw" -> Throw(r)
           [] Probe(rawLead.name) = "present" ->
                [r EXCEPT !.normalized.name = Str(Trim(rawLead.name.s))]
           [] OTHER ->
                [r EXCEPT !.normalized.name = Str(<<"U","n","k","n","o","w","n"," ","S","t","u","d","e","n","t">>),
                          !.log = PushFix(
                              PushError(@, Msg("Missing required student name", <<>>, <<>>)),
                              Msg("Set default name for missing student name", <<>>, <<>>))]

StageStep(rawLead, r) ==
    CASE Probe(rawLead.currentStage) = "throw" -> Throw(r)
           [] Probe(rawLead.currentStage) = "present" ->
                [r EXCEPT !.normalized.currentStage = Str(Trim(rawLead.currentStage.s))]
           [] OTHER ->
                [r EXCEPT !.normalized.currentStage = Str(YetToAssign),
                          !.log = PushFix(
                              PushError(@, Msg("Missing required current stage", <<>>, <<>>)),
                              Msg("Set default stage for missing current stage", <<>>, <<>>))]

DateStep(rawLead, r) ==
    IF ~Truthy(rawLead.leadCreatedDate)
    THEN [r EXCEPT !.normalized.leadCreatedDate = DateNow,
                   !.log = PushFix(@, Msg("Missing date - defaulted to current date",
                                          <<>>, <<>>))]
    ELSE IF ParseLeadCreatedDate(rawLead.leadCreatedDate) # Null
    THEN [r EXCEPT !.normalized.leadCreatedDate =
                       ParseLeadCreatedDate(rawLead.leadCreatedDate)]
    ELSE [r EXCEPT !.normalized.leadCreatedDate = DateNow,
                   !.log = PushWarning(
                       PushFix(@, Msg("Invalid date format - defaulted to current date",
                                      <<>>, <<>>)),
                       Msg("Original date could not be parsed",
                           rawLead.leadCreatedDate.s, <<>>)),
                   !.fieldIssues = addFieldIssue(@, "leadCreatedDate",
                       Msg("Invalid format", rawLead.leadCreatedDate.s, <<>>))]

IntakeStep(rawLead, r) ==
    CASE Probe(rawLead.intake) = "throw" -> Throw(r)
           [] Probe(rawLead.intake) = "present" ->
                LET out == normalizeIntake(Trim(rawLead.intake.s), r.log, r.fieldIssues)
                IN  [r EXCEPT !.normalized.intake = Str(out.value),
                              !.log = out.log, !.fieldIssues = out.fieldIssues]
           [] OTHER ->
                [r EXCEPT !.normalized.intake = Null,
                          !.log = PushWarning(@, Msg("Missing intake information",
                                                     <<>>, <<>>))]

CountryStep(rawLead, r) ==
    CASE Probe(rawLead.country) = "throw" -> Throw(r)
           [] Probe(rawLead.country) = "present" ->
                LET out == normalizeCountry(Trim(rawLead.country.s), r.log, r.fieldIssues)
                IN  [r EXCEPT !.normalized.country = out.value,
                              !.log = out.log, !.fieldIssues = out.fieldIssues]
           [] OTHER ->
                [r EXCEPT !.normalized.country = Null,
                          !.log = PushWarning(@, Msg("Missing country information",
                                                     <<>>, <<>>))]

PhoneStep(rawLead, r) ==
    CASE Probe(rawLead.mobileNumber) = "throw" -> Throw(r)
           [] Probe(rawLead.mobileNumber) = "present" ->
                LET out == normalizePhone(Trim(rawLead.mobileNumber.s), r.log,
                                          r.fieldIssues)
                IN  [r EXCEPT !.normalized.phone = Str(out.value),
                              !.log = out.log, !.fieldIssues = out.fieldIssues]
           [] Probe(rawLead.phone) = "throw" -> Throw(r)
           [] Probe(rawLead.phone) = "present" ->
                LET out == normalizePhone(Trim(rawLead.phone.s), r.log, r.fieldIssues)
                IN  [r EXCEPT !.normalized.phone = Str(out.value),
                              !.log = out.log, !.fieldIssues = out.fieldIssues]
           [] OTHER ->
                [r EXCEPT !.normalized.phone = Null,
                          !.log = PushWarning(@, Msg("Missing phone number", <<>>, <<>>))]

EmailStep(rawLead, r) ==
    CASE Probe(rawLead.email) = "throw" -> Throw(r)
           [] Probe(rawLead.email) = "present" ->
                LET out == normalizeEmail(Trim(rawLead.email.s), r.log, r.fieldIssues)
                IN  [r EXCEPT !.normalized.email = out.value,
                              !.log = out.log, !.fieldIssues = out.fieldIssues]
           [] OTHER -> [r EXCEPT !.normalized.email = Null]

\* `rawLead.f && rawLead.f.trim() ? rawLead.f.trim() : null` for one of the
\* optional fields.
OptionalStep(rawLead, r, f) ==
    CASE Probe(rawLead[f]) = "throw" -> Throw(r)
           [] Probe(rawLead[f]) = "present" ->
                [r EXCEPT !.normalized[f] = Str(Trim(rawLead[f].s))]
           [] OTHER -> [r EXCEPT !.normalized[f] = Null]

\* The field blocks of normalizeAndValidateLead in the order of its statements.
FieldBlocks == <<"uid", "name", "currentStage", "leadCreatedDate", "intake", "country",
                 "phone", "email", "source", "passportStatus", "remarks",
                 "counsellors">>

\* One field block applied to r = [normalized, log, fieldIssues, thrown].
Block(f, rawLead, r) ==
    CASE f = "uid" -> UidStep(rawLead, r)
      [] f = "name" -> NameStep(rawLead, r)
      [] f = "currentStage" -> StageStep(rawLead, r)
      [] f = "leadCreatedDate" -> DateStep(rawLead, r)
      [] f = "intake" -> IntakeStep(rawLead, r)
      [] f = "country" -> CountryStep(rawLead, r)
      [] f = "phone" -> PhoneStep(rawLead, r)
      [] f = "email" -> EmailStep(rawLead, r)
      [] OTHER -> OptionalStep(rawLead, r, f)

\* The blocks from the k-th on, one after the other; a TypeError ends the
\* function where it is thrown.
RECURSIVE BlocksFrom(_, _, _)
BlocksFrom(k, rawLead, r) ==
    IF k > Len(FieldBlocks) \/ r.thrown THEN r
    ELSE BlocksFrom(k + 1, rawLead, Block(FieldBlocks[k], rawLead, r))

\* Returns normalized with the log and the tally as the call leaves them;
\* thrown says that a TypeError left the function, after the appends made so far.
normalizeAndValidateLead(rawLead, log, fieldIssues) ==
    BlocksFrom(1, rawLead, [normalized |-> EmptyNormalized, log |-> log,
                            fieldIssues |-> fieldIssues, thrown |-> FALSE])

(* ------------------------- business rule engine ----------------------- *)

\* A user that find() did not find (undefined); its id is 0, which stands for
\* null wherever an id is stored.
NoUser == [id |-> 0, name |-> <<>>, role |-> "none"]

\* Array.prototype.find: the first element of xs for which the test holds.
Find(xs, hits) == IF hits = {} THEN NoUser ELSE xs[Min(hits)]

determineOptimalStage(counselorId, requestedStage) ==
    IF Truthy(requestedStage) /\ Trim(requestedStage.s) # <<>>
    THEN Trim(requestedStage.s)
    ELSE IF counselorId = 0 THEN YetToContact
    ELSE YetToContact

\* applyBusinessLogic taking the last counselor that matches, not the first.
applyBusinessLogicLastMatch(normalized, counselors, defaultCounselor, managerId) ==
    LET hint == normalized.counsellors
        counselorName == ToLowerCase(Trim(hint.s))
        hits == {k \in 1..Len(counselors) :
                    \/ Includes(ToLowerCase(counselors[k].name), counselorName)
                    \/ Includes(counselorName, ToLowerCase(counselors[k].name))}
        matchedCounselor ==
            IF hits = {} THEN NoUser
            ELSE counselors[CHOOSE k \in hits : \A m \in hits : m <= k]
        assignedCounselorId ==
            IF Truthy(hint) /\ Trim(hint.s) # <<>>
            THEN IF matchedCounselor # NoUser THEN matchedCounselor.id
                 ELSE IF defaultCounselor # NoUser THEN defaultCounselor.id
                 ELSE 0
            ELSE 0
    IN  [counselorId |-> assignedCounselorId,
         currentStage |-> determineOptimalStage(assignedCounselorId,
                                                normalized.currentStage)]

applyBusinessLogic(normalized, counselors, defaultCounselor, managerId) ==
    LET hint == normalized.counsellors
        counselorName == ToLowerCase(Trim(hint.s))
        hits == {k \in 1..Len(counselors) :
                    \/ Includes(ToLowerCase(counselors[k].name), counselorName)
                    \/ Includes(counselorName, ToLowerCase(counselors[k].name))}
        matchedCounselor == Find(counselors, hits)
        assignedCounselorId ==
            IF Truthy(hint) /\ Trim(hint.s) # <<>>
            THEN IF matchedCounselor # NoUser THEN matchedCounselor.id
                 ELSE IF defaultCounselor # NoUser THEN defaultCounselor.id
                 ELSE 0
            ELSE 0
    IN  [counselorId |-> assignedCounselorId,
         currentStage |-> determineOptimalStage(assignedCounselorId,
                                                normalized.currentStage)]

(* ------------------------- roster snapshot ---------------------------- *)

\* The users the store holds, in the order getAllUsers returns them.
StoreUsers == <<
    [id |-> 1, name |-> <<"A","n","u","p","r","i","y","a">>, role |-> "admin"],
    [id |-> 2, name |-> <<"L","i","k","i","t","h","a">>, role |-> "counselor"],
    [id |-> 3, name |-> <<"S","a","n","j","a","n","a">>, role |-> "counselor"] >>

\* manager?.id || null
FindManagerId(us) ==
    Find(us, {k \in 1..Len(us) : \/ Includes(ToLowerCase(us[k].name), <<"a","n","u","p","r","i","y","a">>)
                                 \/ us[k].role = "admin"}).id

RECURSIVE FilterCounselors(_)
\* users.filter(u => u.role === 'counselor')
FilterCounselors(us) ==
    IF us = <<>> THEN <<>>
    ELSE (IF Head(us).role = "counselor" THEN <<Head(us)>> ELSE <<>>)
         \o FilterCounselors(Tail(us))

\* counselors.find(c => c.name.toLowerCase().includes('likitha'))
FindDefaultCounselor(cs) ==
    Find(cs, {k \in 1..Len(cs) : Includes(ToLowerCase(cs[k].name), <<"l","i","k","i","t","h","a">>)})

(* ------------------------------- inputs ------------------------------- *)

\* A JSON object with no field: every field of the row is absent.
RowEmpty ==
    [uid |-> Undef, studentName |-> Undef, name |-> Undef, currentStage |-> Undef,
     leadCreatedDate |-> Undef, intake |-> Undef, country |-> Undef,
     mobileNumber |-> Undef, phone |-> Undef, email |-> Undef, source |-> Undef,
     passportStatus |-> Undef, remarks |-> Undef, counsellors |-> Undef]

\* A row with every field given, most of them in need of a fix.
RowFull ==
    [uid |-> Str(<<" ","L","-","1">>), studentName |-> Str(<<"A","n","n"," ">>), name |-> Str(<<"A">>),
     currentStage |-> Str(<<"A","s","s","i","g","n","e","d">>), leadCreatedDate |-> Str(<<"2","5","/","1","2","/","2","0","2","4">>),
     intake |-> Str(<<"F","a","l","l"," ","2","0","2","5">>), country |-> Str(<<"u","s","a">>),
     mobileNumber |-> Str(<<"+","1"," ","(","5","5","5",")"," ","1","2","3","-","4","5","6","7">>), phone |-> Undef,
     email |-> Str(<<"F","o","o","@","B","A","R",".","c","o","m"," ">>), source |-> Str(<<"w","e","b">>),
     passportStatus |-> Str(<<" ">>), remarks |-> Str(<<"c","a","l","l">>),
     counsellors |-> Str(<<"l","i","k","i","t","h","a"," ","s","h","a","i","k">>)]

\* A row that asks for the unassigned stage and carries a remark.
RowUnassigned ==
    [RowEmpty EXCEPT !.uid = Str(<<"L","-","2">>), !.name = Str(<<"B","o">>),
                     !.currentStage = Str(YetToAssign),
                     !.leadCreatedDate = Str(<<"2","0","2","4","-","0","1","-","0","5">>),
                     !.intake = Str(<<"2","0","2","5","-","F","a","l","l">>), !.country = Str(<<"W","a","k","a","n","d","a">>),
                     !.phone = Str(<<"1","2","3">>), !.email = Str(<<"n","o","t","-","a","n","-","e","m","a","i","l">>),
                     !.remarks = Str(<<"h","i">>)]

\* A row whose name is a JSON number: the uid is generated, then name.trim throws.
RowBadType == [RowEmpty EXCEPT !.name = Num]

\* The rows an input array is built from.
RowPool == {RowEmpty, RowFull, RowUnassigned, RowBadType}

\* The chunk sizes the endpoints hand on: the JSON endpoint passes any value of
\* req.body.chunkSize (0 and negative numbers too), the upload endpoint passes
\* `parseInt(chunkSize) || 1000` (any integer but 0).
ChunkSizes == (0 - 1)..MaxChunkSize

\* How a call of the store settles: it resolves, or it rejects with an Error,
\* with a value that has no message (a string, an object), or with undefined/null.
StoreOutcomes == {"ok", "Error", "NoMessage", "Undefined"}

(* -------------------------------- state ------------------------------- *)

VARIABLES
    rawLeads,                \* the input array
    dryRun,                  \* the dryRun argument
    chunkSize,               \* the chunkSize argument
    runNo,                   \* 1: the first call; 2: the call after a dry run
    prev,                    \* what the first call returned, and its roster
    users,                   \* store: users
    leads,                   \* store: leads
    remarks,                 \* store: remarks
    stageHistory,            \* store: stage_history
    pc,                      \* where processBulkLeadImport stands
    managerId, counselors, defaultCounselor,
    chunks,
    i,                       \* loop variable of the chunking loop (line 81)
    spin,                    \* parity of the chunking loop's iterations once it
                             \* can no longer end
    chunkIndex,
    j,                       \* loop variable i of the row loop (line 90)
    log, normalized, businessLogicResult,
    newLead,                 \* newLead.id, 0 before createLead resolves
    validationLog, fieldIssues,
    importedCount, importedWithIssuesCount, failedCount,
    successfulChunks, failedChunks,
    result,                  \* the object returned
    raised,                  \* rowNumbers whose processing raised an exception
    escaped,                 \* chunkIndexes whose exception left the row-level catch
    rejected,                \* some store write of this call rejected
    lookupFailed,            \* getAllUsers rejected in this call (line 75)
    issueCalls,              \* the arguments of the addFieldIssue calls made one
                             \* by one (AddFieldIssue), in call order
    routeCalls,              \* the calls of assignLeadToCounselor and
                             \* updateLeadStage, each with the statement it is at
    stageChanges             \* every write of leads.currentStage by those calls,
                             \* in the order of the writes: the stage before
                             \* and the stage after

vars == <<rawLeads, dryRun, chunkSize, runNo, prev, users, leads, remarks,
          stageHistory, pc, managerId, counselors, defaultCounselor, chunks, i,
          spin, chunkIndex, j, log, normalized, businessLogicResult, newLead,
          validationLog, fieldIssues, importedCount, importedWithIssuesCount,
          failedCount, successfulChunks, failedChunks, result, raised, escaped,
          rejected, lookupFailed, issueCalls, routeCalls, stageChanges>>

inputVars == <<rawLeads, dryRun, chunkSize, runNo, prev, issueCalls, routeCalls,
               stageChanges>>

storeVars == <<users, leads, remarks, stageHistory>>

rosterVars == <<managerId, counselors, defaultCounselor, lookupFailed>>

chunkingVars == <<chunks, i, spin>>

rowVars == <<log, normalized, businessLogicResult, newLead>>

counterVars == <<validationLog, importedCount, importedWithIssuesCount, failedCount,
                 successfulChunks, failedChunks>>

(* ------------------------------ the log ------------------------------- *)

\* normalizedData: {} when the entry is made, the merged record once the
\* business rules ran; "undefined" in the entries of the chunk-level catch.
NoData == [kind |-> "empty", fields |-> EmptyNormalized, counselorId |-> 0]

\* The ValidationLog object of lines 93-101.
NewLog(rowNumber, rawLead) ==
    [rowNumber |-> rowNumber, status |-> "Imported", fixesApplied |-> <<>>,
     warnings |-> <<>>, errors |-> <<>>, originalData |-> rawLead,
     normalizedData |-> NoData]

\* The value of log between two rows.
NoLog == NewLog(0, RowEmpty)

NoBusinessLogicResult == [counselorId |-> 0, currentStage |-> <<>>]

\* `{ ...normalized, ...businessLogicResult }`
Merge(n, blr) ==
    [kind |-> "full",
     fields |-> [n EXCEPT !.currentStage = Str(blr.currentStage)],
     counselorId |-> blr.counselorId]

\* Slice with its end taken as the index of the last element, not the one after.
SliceInclusive(s, a, b) ==
    LET from == IF a < 0 THEN (IF Len(s) + a < 0 THEN 0 ELSE Len(s) + a)
                ELSE (IF a > Len(s) THEN Len(s) ELSE a)
        to == IF b < 0 THEN (IF Len(s) + b < 0 THEN 0 ELSE Len(s) + b)
              ELSE (IF b >= Len(s) THEN Len(s) - 1 ELSE b)
    IN  SubSeq(s, from + 1, to + 1)

\* Array.prototype.slice(a, b) with JavaScript's treatment of negative indexes.
Slice(s, a, b) ==
    LET from == IF a < 0 THEN (IF Len(s) + a < 0 THEN 0 ELSE Len(s) + a)
                ELSE (IF a > Len(s) THEN Len(s) ELSE a)
        to == IF b < 0 THEN (IF Len(s) + b < 0 THEN 0 ELSE Len(s) + b)
              ELSE (IF b > Len(s) THEN Len(s) ELSE b)
    IN  SubSeq(s, from + 1, to)

\* `error.message || 'Unknown error during processing'`
ErrorMessage(error) ==
    CASE error = "TypeError" -> TypeErrorMessage
      [] error = "Error" -> Msg("the store's message", <<>>, <<>>)
      [] OTHER -> Msg("Unknown error during processing", <<>>, <<>>)

\* The batchSummary of lines 191-203 (the clock and the tally apart: the tally
\* returned is fieldIssues itself).
Summary(imp, iwi, fl, sc, fc) ==
    [totalRows |-> Len(rawLeads), imported |-> imp, importedWithIssues |-> iwi,
     failed |-> fl,
     chunkStats |-> [totalChunks |-> Len(chunks), successfulChunks |-> sc,
                     failedChunks |-> fc]]

\* What a caller reads of each log entry, store-assigned values apart.
LogContent(vl) ==
    [k \in 1..Len(vl) |->
        [rowNumber |-> vl[k].rowNumber, status |-> vl[k].status,
         fixesApplied |-> vl[k].fixesApplied, warnings |-> vl[k].warnings,
         errors |-> vl[k].errors]]

(* ------------------------------ the reports --------------------------- *)

\* A report is a string: a sequence whose elements are single characters, or
\* pieces of fixed text (a header, a status, a key, the fixed part of a message)
\* that hold no line break and no double quote.

\* Array.prototype.join
RECURSIVE Join(_, _)
Join(xs, sep) ==
    IF xs = <<>> THEN <<>>
    ELSE IF Len(xs) = 1 THEN xs[1]
    ELSE xs[1] \o sep \o Join(Tail(xs), sep)

DigitChars == <<"0", "1", "2", "3", "4", "5", "6", "7", "8", "9">>

\* A number of the log as a template literal or JSON.stringify writes it.
RECURSIVE NumberToString(_)
NumberToString(n) ==
    IF n < 10 THEN <<DigitChars[n + 1]>>
    ELSE NumberToString(n \div 10) \o <<DigitChars[(n % 10) + 1]>>

\* The text of a log message: its fixed part, then the values interpolated.
MessageText(m) == <<m.k>> \o m.a \o m.b

\* Lines 507-513: the cells of one log entry.
CsvCells(lg) ==
    << NumberToString(lg.rowNumber),
       <<lg.status>>,
       Join([k \in 1..Len(lg.fixesApplied) |-> MessageText(lg.fixesApplied[k])], <<";", " ">>),
       Join([k \in 1..Len(lg.warnings) |-> MessageText(lg.warnings[k])], <<";", " ">>),
       Join([k \in 1..Len(lg.errors) |-> MessageText(lg.errors[k])], <<";", " ">>) >>

\* Line 515: row.map(cell => `"<<"c","e","l","l">>"`).join(',')
CsvLine(cells) ==
    Join([c \in 1..Len(cells) |-> <<"\"">> \o cells[c] \o <<"\"">>], <<",">>)

generateValidationLogCSV(vl) ==
    LET headers == << <<"Row Number">>, <<"Status">>, <<"Fixes Applied">>,
                      <<"Warnings">>, <<"Errors">> >>
        rows == [k \in 1..Len(vl) |-> CsvCells(vl[k])]
        all == <<headers>> \o rows
    IN  Join([k \in 1..Len(all) |-> CsvLine(all[k])], <<"\n">>)

\* JSON.stringify of a string: quoted, with the quote, the backslash and the
\* line break escaped.
RECURSIVE JsonEscape(_)
JsonEscape(s) ==
    IF s = <<>> THEN <<>>
    ELSE (CASE Head(s) = "\"" -> <<"\\", "\"">>
            [] Head(s) = "\\" -> <<"\\", "\\">>
            [] Head(s) = "\n" -> <<"\\", "n">>
            [] OTHER -> <<Head(s)>>) \o JsonEscape(Tail(s))

\* JSON.stringify of a field's value; an undefined value has no text (its key
\* is left out).
JsonValue(v) ==
    CASE v.t = "string" -> <<"\"">> \o JsonEscape(v.s) \o <<"\"">>
      [] v.t = "null" -> <<"null">>
      [] v.t = "number" -> <<"1">>
      [] v.t = "date" -> <<"\"">> \o JsonEscape(v.s) \o <<"T00:00:00.000Z", "\"">>
      [] v.t = "date-now" -> <<"\"">> \o <<"now">> \o <<"\"">>
      [] v.t = "object" -> <<"{", "}">>
      [] OTHER -> <<>>

\* The keys of `{ ...normalized, ...businessLogicResult }` in insertion order.
NormalizedKeys == <<"uid", "name", "currentStage", "leadCreatedDate", "intake", "country",
                    "phone", "email", "source", "passportStatus", "remarks",
                    "counsellors">>

\* JSON.stringify of log.normalizedData.
JsonNormalizedData(nd) ==
    IF nd.kind = "empty" THEN <<"{", "}">>
    ELSE LET present == SelectSeq(NormalizedKeys, LAMBDA f : nd.fields[f].t \notin {"undefined", "function"})
             members == [k \in 1..Len(present) |->
                            <<"\"", present[k], "\"", ":">>
                                \o JsonValue(nd.fields[present[k]])]
             counselor == <<"\"", "counselorId", "\"", ":">> \o
                          (IF nd.counselorId = 0 THEN <<"null">>
                           ELSE NumberToString(nd.counselorId))
         IN  <<"{">> \o Join(members \o <<counselor>>, <<",">>) \o <<"}">>

generateNormalizedPayloadJSONL(vl) ==
    LET kept == SelectSeq(vl, LAMBDA lg : lg.normalizedData.kind # "undefined")
        line(lg) == <<"{", "\"", "rowNumber", "\"", ":">> \o NumberToString(lg.rowNumber)
                    \o <<",", "\"", "status", "\"", ":", "\"", lg.status, "\"", ",",
                          "\"", "normalizedData", "\"", ":">>
                    \o JsonNormalizedData(lg.normalizedData) \o <<"}">>
    IN  Join([k \in 1..Len(kept) |-> line(kept[k])], <<"\n">>)

(* -------------------------------- Init -------------------------------- *)

Init ==
    /\ rawLeads \in UNION {[1..n -> RowPool] : n \in 0..MaxRows}
    /\ dryRun \in BOOLEAN
    /\ chunkSize \in ChunkSizes
    /\ runNo = 1
    /\ prev = [validationLog |-> <<>>, batchSummary |-> [totalRows |-> 0],
               roster |-> <<0, <<>>, NoUser, FALSE>>]
    /\ users = StoreUsers
    /\ leads = <<>>
    /\ remarks = <<>>
    /\ stageHistory = <<>>
    /\ pc = "setup"
    /\ managerId = 0
    /\ counselors = <<>>
    /\ defaultCounselor = NoUser
    /\ lookupFailed = FALSE
    /\ chunks = <<>>
    /\ i = 0
    /\ spin = 0
    /\ chunkIndex = 0
    /\ j = 0
    /\ log = NoLog
    /\ normalized = EmptyNormalized
    /\ businessLogicResult = NoBusinessLogicResult
    /\ newLead = 0
    /\ validationLog = <<>>
    /\ fieldIssues = NoFieldIssues
    /\ importedCount = 0
    /\ importedWithIssuesCount = 0
    /\ failedCount = 0
    /\ successfulChunks = 0
    /\ failedChunks = 0
    /\ result = [success |-> FALSE, validationLog |-> <<>>,
                 batchSummary |-> [totalRows |-> 0]]
    /\ raised = {}
    /\ escaped = {}
    /\ rejected = FALSE
    /\ issueCalls = <<>>
    /\ routeCalls = <<>>
    /\ stageChanges = <<>>

(* ------------------------- processBulkLeadImport ---------------------- *)

\* Setup without the try block of lines 69-77: a rejection of getAllUsers
\* leaves the function.
SetupRethrows ==
    /\ pc = "setup"
    /\ \E resolved \in BOOLEAN :
          IF resolved
          THEN /\ managerId' = FindManagerId(users)
               /\ counselors' = FilterCounselors(users)
               /\ defaultCounselor' = FindDefaultCounselor(FilterCounselors(users))
               /\ lookupFailed' = FALSE
               /\ pc' = "chunking"
          ELSE /\ lookupFailed' = TRUE
               /\ pc' = "thrown"
               /\ UNCHANGED <<managerId, counselors, defaultCounselor>>
    /\ UNCHANGED <<inputVars, storeVars, chunkingVars, chunkIndex, j, rowVars,
                   counterVars, fieldIssues, result, raised, escaped, rejected>>

\* Lines 64-77: the roster is read once; a rejection of getAllUsers is swallowed.
Setup ==
    /\ pc = "setup"
    /\ \E resolved \in BOOLEAN :
          IF resolved
          THEN /\ managerId' = FindManagerId(users)
               /\ counselors' = FilterCounselors(users)
               /\ defaultCounselor' = FindDefaultCounselor(FilterCounselors(users))
               /\ lookupFailed' = FALSE
          ELSE /\ lookupFailed' = TRUE
               /\ UNCHANGED <<managerId, counselors, defaultCounselor>>
    /\ pc' = "chunking"
    /\ UNCHANGED <<inputVars, storeVars, chunkingVars, chunkIndex, j, rowVars,
                   counterVars, fieldIssues, result, raised, escaped, rejected>>

\* The object returned (lines 205-213), the two reports apart: they are
\* functions of validationLog.
Returned(vl, imp, iwi, fl, sc, fc) ==
    [success |-> TRUE, validationLog |-> vl, batchSummary |-> Summary(imp, iwi, fl, sc, fc)]

\* The row loop and the chunk loop move on with the log and the counters given:
\* to the next row, to the next chunk, or to the return statement.
Proceed(endOfChunk, vl, imp, iwi, fl, sc, fc) ==
    /\ validationLog' = vl
    /\ importedCount' = imp
    /\ importedWithIssuesCount' = iwi
    /\ failedCount' = fl
    /\ successfulChunks' = sc
    /\ failedChunks' = fc
    /\ log' = NoLog
    /\ normalized' = EmptyNormalized
    /\ businessLogicResult' = NoBusinessLogicResult
    /\ newLead' = 0
    /\ IF ~endOfChunk
       THEN /\ j' = j + 1
            /\ pc' = "row"
            /\ UNCHANGED <<chunkIndex, result>>
       ELSE IF chunkIndex + 1 < Len(chunks)
       THEN /\ chunkIndex' = chunkIndex + 1
            /\ j' = 0
            /\ pc' = "row"
            /\ UNCHANGED result
       ELSE /\ chunkIndex' = chunkIndex + 1
            /\ j' = 0
            /\ pc' = "done"
            /\ result' = Returned(vl, imp, iwi, fl, sc, fc)

\* Lines 79-83, one iteration a step; when the loop ends the chunk loop starts.
\* A loop that has pushed more chunks than there are rows has not advanced i and
\* never will: from then on the chunks it pushes are no longer recorded, only
\* the parity of its iterations.
ChunkStep ==
    /\ pc = "chunking"
    /\ IF i < Len(rawLeads)
       THEN /\ IF Len(chunks) <= Len(rawLeads)
               THEN /\ chunks' = Append(chunks, Slice(rawLeads, i, i + chunkSize))
                    /\ i' = i + chunkSize
                    /\ spin' = spin
               ELSE /\ spin' = 1 - spin
                    /\ UNCHANGED <<chunks, i>>
            /\ UNCHANGED <<pc, chunkIndex, j, rowVars, counterVars, result>>
       ELSE /\ UNCHANGED chunkingVars
            /\ IF chunks = <<>>
               THEN /\ pc' = "done"
                    /\ result' = Returned(<<>>, 0, 0, 0, 0, 0)
                    /\ UNCHANGED <<chunkIndex, j, rowVars, counterVars>>
               ELSE /\ pc' = "row"
                    /\ UNCHANGED <<chunkIndex, j, rowVars, counterVars, result>>
    /\ UNCHANGED <<inputVars, storeVars, rosterVars, fieldIssues, raised, escaped,
                   rejected>>

\* The chunk being processed and the number of its first row less one.
Chunk == chunks[chunkIndex + 1]

chunkStartIndex == chunkIndex * chunkSize

\* RowStatus with a slip: a dry run, which writes nothing, reports every row as
\* Imported.
RowStatusDryRunImported(lg) ==
    IF dryRun THEN "Imported"
    ELSE IF Len(lg.warnings) > 0 \/ Len(lg.fixesApplied) > 0
    THEN "ImportedWithIssues"
    ELSE "Imported"

\* Lines 152-157: the status of a row that raised no exception.
RowStatus(lg) ==
    IF Len(lg.warnings) > 0 \/ Len(lg.fixesApplied) > 0
    THEN "ImportedWithIssues"
    ELSE "Imported"

\* CatchChunk without its try/catch: the exception leaves processBulkLeadImport.
CatchChunkRethrows(rowNumber) ==
    /\ pc' = "thrown"
    /\ raised' = raised \cup {rowNumber}
    /\ escaped' = escaped \cup {chunkIndex}
    /\ UNCHANGED <<chunkIndex, j, rowVars, counterVars, result>>

\* CatchChunk taking the chunk's rows out of validationLog before it appends
\* their Failed entries.
CatchChunkReplaces(rowNumber) ==
    LET failedRows ==
            [k \in 1..Len(Chunk) |->
                [rowNumber |-> chunkStartIndex + (k - 1) + 1, status |-> "Failed",
                 fixesApplied |-> <<>>, warnings |-> <<>>,
                 errors |-> <<Msg("Chunk processing failed", <<>>, <<>>)>>,
                 originalData |-> Chunk[k],
                 normalizedData |-> [NoData EXCEPT !.kind = "undefined"]]]
        kept == SelectSeq(validationLog, LAMBDA lg : lg.rowNumber <= chunkStartIndex)
    IN  /\ Proceed(TRUE, kept \o failedRows, importedCount,
                   importedWithIssuesCount, failedCount + Len(Chunk),
                   successfulChunks, failedChunks + 1)
        /\ raised' = raised \cup {rowNumber}
        /\ escaped' = escaped \cup {chunkIndex}

\* Lines 169-186: the chunk-level catch.  Every row of the chunk gets a Failed
\* entry, those already in validationLog too.
CatchChunk(rowNumber) ==
    LET failedRows ==
            [k \in 1..Len(Chunk) |->
                [rowNumber |-> chunkStartIndex + (k - 1) + 1, status |-> "Failed",
                 fixesApplied |-> <<>>, warnings |-> <<>>,
                 errors |-> <<Msg("Chunk processing failed", <<>>, <<>>)>>,
                 originalData |-> Chunk[k],
                 normalizedData |-> [NoData EXCEPT !.kind = "undefined"]]]
    IN  /\ Proceed(TRUE, validationLog \o failedRows, importedCount,
                   importedWithIssuesCount, failedCount + Len(Chunk),
                   successfulChunks, failedChunks + 1)
        /\ raised' = raised \cup {rowNumber}
        /\ escaped' = escaped \cup {chunkIndex}

\* Lines 159-168: the row-level catch, then the push of line 165.  Reading
\* error.message of undefined or null throws inside the catch block, and that
\* TypeError is caught by the chunk-level catch.
CatchRow(lg, error) ==
    IF error = "Undefined"
    THEN CatchChunk(lg.rowNumber)
    ELSE LET endOfChunk == j + 1 >= Len(Chunk)
             failedLog == [lg EXCEPT !.status = "Failed",
                                     !.errors = Append(@, ErrorMessage(error))]
         IN  /\ Proceed(endOfChunk, Append(validationLog, failedLog), importedCount,
                        importedWithIssuesCount, failedCount + 1,
                        successfulChunks + (IF endOfChunk THEN 1 ELSE 0), failedChunks)
             /\ raised' = raised \cup {lg.rowNumber}
             /\ escaped' = escaped

\* FinishRow with successfulChunks++ inside the row loop: every finished row
\* counts a chunk.
FinishRowCountsEveryRow(lg) ==
    LET endOfChunk == j + 1 >= Len(Chunk)
        status == RowStatus(lg)
    IN  /\ Proceed(endOfChunk, Append(validationLog, [lg EXCEPT !.status = status]),
                   importedCount + (IF status = "Imported" THEN 1 ELSE 0),
                   importedWithIssuesCount
                       + (IF status = "ImportedWithIssues" THEN 1 ELSE 0),
                   failedCount,
                   successfulChunks + 1, failedChunks)
        /\ UNCHANGED <<raised, escaped>>

\* Lines 152-168: the row is classified, counted and pushed.
FinishRow(lg) ==
    LET endOfChunk == j + 1 >= Len(Chunk)
        status == RowStatus(lg)
    IN  /\ Proceed(endOfChunk, Append(validationLog, [lg EXCEPT !.status = status]),
                   importedCount + (IF status = "Imported" THEN 1 ELSE 0),
                   importedWithIssuesCount
                       + (IF status = "ImportedWithIssues" THEN 1 ELSE 0),
                   failedCount,
                   successfulChunks + (IF endOfChunk THEN 1 ELSE 0), failedChunks)
        /\ UNCHANGED <<raised, escaped>>

\* SkipPersistence with the dryRun test lost: every run writes.
SkipPersistenceNever == FALSE

\* Line 109: `if (!dryRun)` guards the three writes.
SkipPersistence == dryRun

\* ProcessRow reading the store's users for every row, not the roster read
\* during setup.
ProcessRowLiveRoster ==
    /\ pc = "row"
    /\ LET rowNumber == chunkStartIndex + j + 1
           rawLead == Chunk[j + 1]
           r == normalizeAndValidateLead(rawLead, NewLog(rowNumber, rawLead), fieldIssues)
           blr == applyBusinessLogic(r.normalized, FilterCounselors(users),
                                     FindDefaultCounselor(FilterCounselors(users)),
                                     FindManagerId(users))
           merged == [r.log EXCEPT !.normalizedData = Merge(r.normalized, blr)]
       IN  /\ fieldIssues' = r.fieldIssues
           /\ IF r.thrown THEN CatchRow(r.log, "TypeError")
              ELSE IF SkipPersistence THEN FinishRow(merged)
              ELSE /\ pc' = "createLead"
                   /\ log' = merged
                   /\ normalized' = r.normalized
                   /\ businessLogicResult' = blr
                   /\ newLead' = 0
                   /\ UNCHANGED <<chunkIndex, j, counterVars, result, raised, escaped>>
    /\ UNCHANGED <<inputVars, storeVars, rosterVars, chunkingVars, rejected>>

\* Lines 90-109: the row's log is made, the row normalized and the business
\* rules applied; a dry run goes on to classify the row.
ProcessRow ==
    /\ pc = "row"
    /\ LET rowNumber == chunkStartIndex + j + 1
           rawLead == Chunk[j + 1]
           r == normalizeAndValidateLead(rawLead, NewLog(rowNumber, rawLead), fieldIssues)
           blr == applyBusinessLogic(r.normalized, counselors, defaultCounselor,
                                     managerId)
           merged == [r.log EXCEPT !.normalizedData = Merge(r.normalized, blr)]
       IN  /\ fieldIssues' = r.fieldIssues
           /\ IF r.thrown THEN CatchRow(r.log, "TypeError")
              ELSE IF SkipPersistence THEN FinishRow(merged)
              ELSE /\ pc' = "createLead"
                   /\ log' = merged
                   /\ normalized' = r.normalized
                   /\ businessLogicResult' = blr
                   /\ newLead' = 0
                   /\ UNCHANGED <<chunkIndex, j, counterVars, result, raised, escaped>>
    /\ UNCHANGED <<inputVars, storeVars, rosterVars, chunkingVars, rejected>>

\* Line 130: `normalized.remarks && normalized.remarks.trim()`
WantsRemark == Truthy(normalized.remarks) /\ Trim(normalized.remarks.s) # <<>>

\* Line 140
WantsStageHistory ==
    /\ businessLogicResult.currentStage # <<>>
    /\ businessLogicResult.currentStage # YetToAssign

\* `businessLogicResult.counselorId || managerId || 1`
WriterId ==
    IF businessLogicResult.counselorId # 0 THEN businessLogicResult.counselorId
    ELSE IF managerId # 0 THEN managerId
    ELSE 1

\* The row goes on to its next await, or past the last one to line 152.
Await(next, leadId) ==
    IF next = "finish"
    THEN FinishRow(log)
    ELSE /\ pc' = next
         /\ newLead' = leadId
         /\ UNCHANGED <<log, normalized, businessLogicResult, chunkIndex, j,
                        counterVars, result, raised, escaped>>

\* CreateLead going on to createStageHistory before createRemark.
CreateLeadThenHistory ==
    /\ pc = "createLead"
    /\ \E outcome \in StoreOutcomes :
          IF outcome = "ok"
          THEN /\ leads' = Append(leads,
                      [id |-> Len(leads) + 1, rowNumber |-> log.rowNumber,
                       uid |-> normalized.uid, name |-> normalized.name,
                       email |-> normalized.email, phone |-> normalized.phone,
                       country |-> normalized.country, intake |-> normalized.intake,
                       source |-> normalized.source,
                       currentStage |-> businessLogicResult.currentStage,
                       counselorId |-> businessLogicResult.counselorId,
                       managerId |-> managerId,
                       passportStatus |-> normalized.passportStatus,
                       counsellors |-> normalized.counsellors])
               /\ Await(IF WantsStageHistory THEN "createStageHistory"
                        ELSE IF WantsRemark THEN "createRemark"
                        ELSE "finish",
                        Len(leads) + 1)
               /\ UNCHANGED rejected
          ELSE /\ CatchRow(log, outcome)
               /\ rejected' = TRUE
               /\ UNCHANGED leads
    /\ UNCHANGED <<inputVars, users, remarks, stageHistory, rosterVars, chunkingVars,
                   fieldIssues>>

\* Lines 111-127.  rowNumber is not a column: it records which row made the lead.
CreateLead ==
    /\ pc = "createLead"
    /\ \E outcome \in StoreOutcomes :
          IF outcome = "ok"
          THEN /\ leads' = Append(leads,
                      [id |-> Len(leads) + 1, rowNumber |-> log.rowNumber,
                       uid |-> normalized.uid, name |-> normalized.name,
                       email |-> normalized.email, phone |-> normalized.phone,
                       country |-> normalized.country, intake |-> normalized.intake,
                       source |-> normalized.source,
                       currentStage |-> businessLogicResult.currentStage,
                       counselorId |-> businessLogicResult.counselorId,
                       managerId |-> managerId,
                       passportStatus |-> normalized.passportStatus,
                       counsellors |-> normalized.counsellors])
               /\ Await(IF WantsRemark THEN "createRemark"
                        ELSE IF WantsStageHistory THEN "createStageHistory"
                        ELSE "finish",
                        Len(leads) + 1)
               /\ UNCHANGED rejected
          ELSE /\ CatchRow(log, outcome)
               /\ rejected' = TRUE
               /\ UNCHANGED leads
    /\ UNCHANGED <<inputVars, users, remarks, stageHistory, rosterVars, chunkingVars,
                   fieldIssues>>

\* Lines 129-137
CreateRemark ==
    /\ pc = "createRemark"
    /\ \E outcome \in StoreOutcomes :
          IF outcome = "ok"
          THEN /\ remarks' = Append(remarks,
                      [leadId |-> newLead, userId |-> WriterId,
                       content |-> <<"B","u","l","k"," ","I","m","p","o","r","t",":"," ">> \o Trim(normalized.remarks.s),
                       isVisible |-> TRUE])
               /\ Await(IF WantsStageHistory THEN "createStageHistory" ELSE "finish",
                        newLead)
               /\ UNCHANGED rejected
          ELSE /\ CatchRow(log, outcome)
               /\ rejected' = TRUE
               /\ UNCHANGED remarks
    /\ UNCHANGED <<inputVars, users, leads, stageHistory, rosterVars, chunkingVars,
                   fieldIssues>>

\* Lines 139-149
CreateStageHistory ==
    /\ pc = "createStageHistory"
    /\ \E outcome \in StoreOutcomes :
          IF outcome = "ok"
          THEN /\ stageHistory' = Append(stageHistory,
                      [leadId |-> newLead, fromStage |-> Null,
                       toStage |-> Str(businessLogicResult.currentStage),
                       userId |-> WriterId,
                       reason |-> IF businessLogicResult.counselorId # 0
                                  THEN "Bulk import - Assigned to counselor"
                                  ELSE "Bulk import - Unassigned",
                       createdAt |-> normalized.leadCreatedDate])
               /\ Await("finish", newLead)
               /\ UNCHANGED rejected
          ELSE /\ CatchRow(log, outcome)
               /\ rejected' = TRUE
               /\ UNCHANGED stageHistory
    /\ UNCHANGED <<inputVars, users, leads, remarks, rosterVars, chunkingVars,
                   fieldIssues>>

\* The import page runs a dry run and then the import of the same rows
\* (its two buttons): the second call starts where the first returned.
Rerun ==
    /\ pc = "done"
    /\ dryRun
    /\ runNo = 1
    /\ runNo' = 2
    /\ dryRun' = FALSE
    /\ prev' = [validationLog |-> LogContent(result.validationLog),
                batchSummary |-> result.batchSummary, roster |-> rosterVars]
    /\ pc' = "setup"
    /\ managerId' = 0
    /\ counselors' = <<>>
    /\ defaultCounselor' = NoUser
    /\ lookupFailed' = FALSE
    /\ chunks' = <<>>
    /\ i' = 0
    /\ spin' = 0
    /\ chunkIndex' = 0
    /\ j' = 0
    /\ validationLog' = <<>>
    /\ fieldIssues' = NoFieldIssues
    /\ importedCount' = 0
    /\ importedWithIssuesCount' = 0
    /\ failedCount' = 0
    /\ successfulChunks' = 0
    /\ failedChunks' = 0
    /\ result' = [success |-> FALSE, validationLog |-> <<>>,
                  batchSummary |-> [totalRows |-> 0]]
    /\ raised' = {}
    /\ escaped' = {}
    /\ rejected' = FALSE
    /\ UNCHANGED <<rawLeads, chunkSize, issueCalls, routeCalls, stageChanges, storeVars,
                   rowVars>>

Next ==
    \/ Setup
    \/ ChunkStep
    \/ ProcessRow
    \/ CreateLead
    \/ CreateRemark
    \/ CreateStageHistory
    \/ Rerun

Spec == Init /\ [][Next]_vars

\* The event loop runs every continuation that is ready, and every store call
\* settles; whether the page's second button is pressed is left open.
\* ProcessRow is enabled exactly when pc = "row", and it cannot be taken for ever
\* without leaving "row" (each such step moves on to a further row): its weak
\* fairness is that pc is not "row" for ever.
FairSpec ==
    /\ Spec
    /\ WF_vars(Setup)
    /\ WF_vars(ChunkStep)
    /\ []<>(pc # "row")
    /\ WF_vars(CreateLead)
    /\ WF_vars(CreateRemark)
    /\ WF_vars(CreateStageHistory)

\* A first call before its first statement, on an empty store: everything but
\* its three arguments.
FirstCall ==
    /\ runNo = 1
    /\ prev = [validationLog |-> <<>>, batchSummary |-> [totalRows |-> 0],
               roster |-> <<0, <<>>, NoUser, FALSE>>]
    /\ users = StoreUsers
    /\ leads = <<>>
    /\ remarks = <<>>
    /\ stageHistory = <<>>
    /\ pc = "setup"
    /\ managerId = 0
    /\ counselors = <<>>
    /\ defaultCounselor = NoUser
    /\ lookupFailed = FALSE
    /\ chunks = <<>>
    /\ i = 0
    /\ spin = 0
    /\ chunkIndex = 0
    /\ j = 0
    /\ log = NoLog
    /\ normalized = EmptyNormalized
    /\ businessLogicResult = NoBusinessLogicResult
    /\ newLead = 0
    /\ validationLog = <<>>
    /\ fieldIssues = NoFieldIssues
    /\ importedCount = 0
    /\ importedWithIssuesCount = 0
    /\ failedCount = 0
    /\ successfulChunks = 0
    /\ failedChunks = 0
    /\ result = [success |-> FALSE, validationLog |-> <<>>,
                 batchSummary |-> [totalRows |-> 0]]
    /\ raised = {}
    /\ escaped = {}
    /\ rejected = FALSE
    /\ issueCalls = <<>>
    /\ routeCalls = <<>>
    /\ stageChanges = <<>>

(* ----------------------------- chunking alone ------------------------- *)

\* Calls with longer input arrays, followed through the roster lookup and the
\* chunking loop up to the first row.
ChunkingInit ==
    /\ rawLeads \in UNION {[1..n -> {RowEmpty, RowBadType}] : n \in 0..MaxChunkingRows}
    /\ dryRun \in BOOLEAN
    /\ chunkSize \in ChunkSizes
    /\ FirstCall

ChunkingNext ==
    \/ Setup
    \/ ChunkStep

ChunkingSpec == ChunkingInit /\ [][ChunkingNext]_vars

(* --------------------------- rows with gaps --------------------------- *)

\* The fields of a row, name and phone with their two spellings.
FieldGroups ==
    {{"uid"}, {"studentName", "name"}, {"currentStage"}, {"leadCreatedDate"}, {"intake"},
     {"country"}, {"mobileNumber", "phone"}, {"email"}, {"source"}, {"passportStatus"},
     {"remarks"}, {"counsellors"}}

\* What a field that is absent or blank holds: nothing, null, the empty string
\* or white space.
Gaps == {Undef, Null, Str(<<>>), Str(<<" ">>)}

\* RowFull with the fields of the groups G holding gap.
WithGaps(G, gap) == [f \in DOMAIN RowFull |-> IF f \in UNION G THEN gap ELSE RowFull[f]]

\* RowFull with the fields of any groups absent or white space, and the rows
\* all of whose fields are absent or blank in one of the four ways.
GapRows ==
    {WithGaps(G, gap) : G \in SUBSET FieldGroups, gap \in {Undef, Str(<<" ">>)}}
        \cup {WithGaps(FieldGroups, gap) : gap \in Gaps}

\* Dry runs of one such row.
GapInit ==
    /\ rawLeads \in {<<row>> : row \in GapRows}
    /\ dryRun = TRUE
    /\ chunkSize = 1
    /\ FirstCall

GapNext ==
    \/ Setup
    \/ ChunkStep
    \/ ProcessRow

GapSpec == GapInit /\ [][GapNext]_vars

(* ------------------------- business rules alone ----------------------- *)

\* The variables of processBulkLeadImport while no call of it is under way,
\* rawLeads apart.
Idle ==
    /\ dryRun = TRUE
    /\ chunkSize = 1
    /\ runNo = 1
    /\ prev = [validationLog |-> <<>>, batchSummary |-> [totalRows |-> 0],
               roster |-> <<0, <<>>, NoUser, FALSE>>]
    /\ users = StoreUsers
    /\ leads = <<>>
    /\ remarks = <<>>
    /\ stageHistory = <<>>
    /\ chunks = <<>>
    /\ i = 0
    /\ spin = 0
    /\ chunkIndex = 0
    /\ j = 0
    /\ newLead = 0
    /\ validationLog = <<>>
    /\ importedCount = 0
    /\ importedWithIssuesCount = 0
    /\ failedCount = 0
    /\ successfulChunks = 0
    /\ failedChunks = 0
    /\ result = [success |-> FALSE, validationLog |-> <<>>,
                 batchSummary |-> [totalRows |-> 0]]
    /\ raised = {}
    /\ escaped = {}
    /\ rejected = FALSE
    /\ issueCalls = <<>>
    /\ routeCalls = <<>>
    /\ stageChanges = <<>>

\* normalized.counsellors: null, white space, and hints that are part of one
\* counselor's name, hold one, are part of two, and match none.
RuleHints == {Null, Str(<<" ">>), Str(<<"S","A","N">>), Str(<<"l","i","k","i","t","h","a"," ","s","h","a","i","k">>), Str(<<" ","H"," ">>),
              Str(<<"b","o","b">>)}

\* normalized.currentStage
RuleStages == {Str(YetToAssign), Str(<<"A","s","s","i","g","n","e","d">>), Null}

RuleCounselors ==
    {[id |-> 2, name |-> <<"L","i","k","i","t","h","a">>, role |-> "counselor"],
     [id |-> 3, name |-> <<"S","a","n","j","a","n","a">>, role |-> "counselor"],
     [id |-> 4, name |-> <<"V","a","r","s","h","a">>, role |-> "counselor"]}

\* The rosters: up to three counselors in any order.
RuleRosters ==
    {cs \in UNION {[1..n -> RuleCounselors] : n \in 0..3} :
        \A a, b \in 1..Len(cs) : a # b => cs[a] # cs[b]}

\* A call of applyBusinessLogic about to be made.
RulesInit ==
    /\ Idle
    /\ rawLeads = <<>>
    /\ pc = "rules"
    /\ \E hint \in RuleHints, stage \in RuleStages :
          normalized = [EmptyNormalized EXCEPT !.counsellors = hint,
                                               !.currentStage = stage]
    /\ counselors \in RuleRosters
    /\ defaultCounselor \in RuleCounselors \cup {NoUser}
    /\ managerId \in {0, 1}
    /\ lookupFailed = FALSE
    /\ businessLogicResult = NoBusinessLogicResult
    /\ log = NoLog
    /\ fieldIssues = NoFieldIssues

ApplyRules ==
    /\ pc = "rules"
    /\ businessLogicResult' =
           applyBusinessLogic(normalized, counselors, defaultCounselor, managerId)
    /\ pc' = "ruled"
    /\ UNCHANGED <<inputVars, storeVars, rosterVars, chunkingVars, chunkIndex, j, log,
                   normalized, newLead, counterVars, fieldIssues, result, raised,
                   escaped, rejected>>

RulesNext == ApplyRules

RulesSpec == RulesInit /\ [][RulesNext]_vars

(* ------------------- users created during a run ----------------------- *)

\* A row whose hint names no counselor of StoreUsers: the default counselor
\* is assigned.
RowForVarsha ==
    [RowEmpty EXCEPT !.name = Str(<<"C","y">>), !.currentStage = Str(<<"A","s","s","i","g","n","e","d">>),
                     !.counsellors = Str(<<"V","a","r","s","h","a">>)]

\* The counselor POST /api/users adds.
NewCounselor == [id |-> 4, name |-> <<"V","a","r","s","h","a">>, role |-> "counselor"]

\* POST /api/users while the call is under way: the store gets one more user.
CreateUser ==
    /\ pc # "done"
    /\ Len(users) < MaxUsers
    /\ users' = Append(users, NewCounselor)
    /\ UNCHANGED <<inputVars, leads, remarks, stageHistory, pc, rosterVars,
                   chunkingVars, chunkIndex, j, rowVars, counterVars, fieldIssues,
                   result, raised, escaped, rejected>>

SnapshotInit ==
    /\ rawLeads \in UNION {[1..n -> {RowFull, RowForVarsha}] : n \in 1..MaxRows}
    /\ dryRun \in BOOLEAN
    /\ chunkSize \in {1, MaxRows}
    /\ FirstCall

SnapshotNext ==
    \/ Setup
    \/ ChunkStep
    \/ ProcessRow
    \/ CreateLead
    \/ CreateRemark
    \/ CreateStageHistory
    \/ CreateUser

SnapshotSpec == SnapshotInit /\ [][SnapshotNext]_vars

(* ------------------------- the tally alone ---------------------------- *)

\* Two of the field names and two of the messages addFieldIssue is called with.
TallyFields == {"uid", "phone"}

TallyIssues == {Msg("Too short", <<"1">>, <<>>), Msg("Generated", <<>>, <<"X">>)}

\* `const fieldIssues = {}` (line 55), before the first call of addFieldIssue.
TallyInit ==
    /\ Idle
    /\ rawLeads = <<>>
    /\ pc = "tally"
    /\ managerId = 0
    /\ counselors = <<>>
    /\ defaultCounselor = NoUser
    /\ lookupFailed = FALSE
    /\ normalized = EmptyNormalized
    /\ businessLogicResult = NoBusinessLogicResult
    /\ log = NoLog
    /\ fieldIssues = NoFieldIssues

\* One call of addFieldIssue.
AddFieldIssue ==
    /\ pc = "tally"
    /\ Len(issueCalls) < MaxCalls
    /\ \E fieldName \in TallyFields, issue \in TallyIssues :
          /\ fieldIssues' = addFieldIssue(fieldIssues, fieldName, issue)
          /\ issueCalls' = Append(issueCalls, [fieldName |-> fieldName, issue |-> issue])
    /\ UNCHANGED <<rawLeads, dryRun, chunkSize, runNo, prev, routeCalls, stageChanges,
                   storeVars, pc, rosterVars, chunkingVars, chunkIndex, j, rowVars,
                   counterVars, result, raised, escaped, rejected>>

TallyNext == AddFieldIssue

TallySpec == TallyInit /\ [][TallyNext]_vars

(* ---------------------- field normalizers alone ----------------------- *)

\* Phone numbers: with punctuation, short, clean, with a plus sign inside,
\* without any digit, and with white space around.
PhoneInputs ==
    {<<"+","1"," ","(","5","5","5",")"," ","1","2","3","-","4","5","6","7">>, <<"1","2","3">>, <<"1","2","3","4","5","6","7","8","9","0">>, <<"+","1","5","5","5","1","2","3","4","5","6","7">>, <<"5","5","5","+","1","2","3","4">>,
     <<"+","+","1","5","5","5","1","2","3","4","5","6","7">>, <<"1","+">>, <<"c","a","l","l"," ","m","e">>, <<"+">>, <<"0","0","9","1"," ","9","8","7","6","5"," ","4","3","2","1","0">>,
     <<"(","5","5","5",")"," ","1","2","3","-","4","5","6","7"," ","e","x","t"," ","+","2">>, <<" ","1","2","3"," ">>, <<"1","2","3","4","5","6","7","8","9","0"," ">>, <<"1","2","3","4","5","6","7","8","9","0","1","2","3","4">>}

\* Countries: aliases in several casings, unknown names, ISO-2 codes, names
\* that Object.prototype holds, and white space around.
CountryInputs ==
    {<<"u","s","a">>, <<"U","S","A">>, <<"U","n","i","t","e","d"," ","S","t","a","t","e","s">>, <<"u","n","i","t","e","d"," ","s","t","a","t","e","s"," ","o","f"," ","a","m","e","r","i","c","a">>, <<"u","k">>, <<"I","n","d","i","a">>,
     <<"W","a","k","a","n","d","a">>, <<"U","S">>, <<"u","s">>, <<"G","B">>, <<"U"," ","K">>, <<"c","o","n","s","t","r","u","c","t","o","r">>, <<"C","o","n","s","t","r","u","c","t","o","r">>,
     <<"_","_","p","r","o","t","o","_","_">>, <<" ","u","k"," ">>, <<"p","r","c">>, <<"K","o","r","e","a">>}

\* Intakes: canonical ones, season and year in either order, aliases of a
\* season, one part missing, both missing, and white space around.
IntakeInputs ==
    {<<"2","0","2","5","-","F","a","l","l">>, <<"2","0","2","5","-","S","p","r","i","n","g">>, <<"2","0","2","5","-","S","u","m","m","e","r">>, <<"2","0","2","5","-","W","i","n","t","e","r">>, <<"1","9","9","9","-","F","a","l","l">>,
     <<"2","0","2","7","-","F","a","l","l">>, <<"F","a","l","l"," ","2","0","2","5">>, <<"2","0","2","4"," ","f","a","l","l">>, <<"s","e","p"," ","2","0","2","5">>, <<"s","p","r","i","n","g">>, <<"2","0","2","5">>,
     <<"n","e","x","t">>, <<"J","a","n","u","a","r","y"," ","2","0","2","6">>, <<"F","A","L","L","2","0","2","5">>, <<"1","2","3","4","5"," ","m","a","y">>, <<"2","0","2","5","-","f","a","l","l">>,
     <<"2","0","2","5","-","A","u","t","u","m","n">>, <<"F","a","l","l","-","2","0","2","5">>, <<"2","0","2","5","-","F","a","l","l"," ">>, <<"S","p","r","i","n","g"," ","2","0","2","5"," ","o","r"," ","F","a","l","l"," ","2","0","2","5">>,
     <<"d","e","c","e","m","b","e","r"," ","2","0","2","5">>, <<"2","0","2","5","-","J","u","n">>}

\* Emails: valid ones in several casings, white space around, and invalid ones.
EmailInputs ==
    {<<"F","o","o","@","B","A","R",".","c","o","m"," ">>, <<"n","o","t","-","a","n","-","e","m","a","i","l">>, <<"f","o","o","@","b","a","r",".","c","o","m">>, <<"f","o","o","@","b","a","r",".","c","o","m"," ">>, <<" ","f","o","o","@","b","a","r",".","c","o","m">>,
     <<"a","@","b">>, <<"a","@","b",".","c">>, <<"@","b",".","c">>, <<"a","@",".","c">>, <<"a","@","b",".">>, <<"a"," ","b","@","c",".","d">>, <<"a","@","@","b",".","c">>, <<"A","@","B",".","C">>,
     <<"a",".","b","@","c",".","d",".","e">>}

FieldInputs == PhoneInputs \cup CountryInputs \cup IntakeInputs \cup EmailInputs

\* A row whose intake, country, mobileNumber and email hold the text x.
FieldRow(x) ==
    [RowEmpty EXCEPT !.intake = Str(x), !.country = Str(x), !.mobileNumber = Str(x),
                     !.email = Str(x)]

\* normalizeAndValidateLead before one of its field blocks, with a fresh log
\* and an empty tally.
FieldInit ==
    /\ Idle
    /\ \E x \in FieldInputs : rawLeads = <<FieldRow(x)>>
    /\ pc = "field"
    /\ managerId = 0
    /\ counselors = <<>>
    /\ defaultCounselor = NoUser
    /\ lookupFailed = FALSE
    /\ normalized = EmptyNormalized
    /\ businessLogicResult = NoBusinessLogicResult
    /\ log = NewLog(1, rawLeads[1])
    /\ fieldIssues = NoFieldIssues

\* The block of field f runs on the row.
FieldBlock(f) ==
    /\ pc = "field"
    /\ LET r == Block(f, rawLeads[1],
                      [normalized |-> normalized, log |-> log,
                       fieldIssues |-> fieldIssues, thrown |-> FALSE])
       IN  /\ normalized' = r.normalized
           /\ log' = r.log
           /\ fieldIssues' = r.fieldIssues
    /\ pc' = f
    /\ UNCHANGED <<inputVars, storeVars, rosterVars, chunkingVars, chunkIndex, j,
                   businessLogicResult, newLead, counterVars, result, raised, escaped,
                   rejected>>

\* Lines 286-292
IntakeBlock == FieldBlock("intake")

\* Lines 294-300
CountryBlock == FieldBlock("country")

\* Lines 302-310
PhoneBlock == FieldBlock("phone")

\* Lines 312-317
EmailBlock == FieldBlock("email")

FieldNext ==
    \/ IntakeBlock
    \/ CountryBlock
    \/ PhoneBlock
    \/ EmailBlock

FieldSpec == FieldInit /\ [][FieldNext]_vars

(* ----------------------------- clean rows ----------------------------- *)

\* A row with every field present and in canonical form, for the country
\* code given.
RowClean(code) ==
    [uid |-> Str(<<"L","-","9">>), studentName |-> Str(<<"A","n","n">>), name |-> Str(<<"A","n","n">>),
     currentStage |-> Str(<<"A","s","s","i","g","n","e","d">>), leadCreatedDate |-> Str(<<"2","0","2","4","-","0","1","-","0","5">>),
     intake |-> Str(<<"2","0","2","5","-","F","a","l","l">>), country |-> Str(code),
     mobileNumber |-> Str(<<"1","2","3","4","5","6","7","8","9","0">>), phone |-> Str(<<"1","2","3","4","5","6","7","8","9","0">>),
     email |-> Str(<<"a","n","n","@","x",".","o","r","g">>), source |-> Str(<<"w","e","b">>),
     passportStatus |-> Str(<<"V","a","l","i","d">>), remarks |-> Str(<<"c","a","l","l">>),
     counsellors |-> Str(<<"L","i","k","i","t","h","a">>)]

CleanRows == {RowClean(<<"U","S">>), RowClean(<<"G","B">>)}

CleanInit ==
    /\ rawLeads \in UNION {[1..n -> CleanRows] : n \in 1..MaxRows}
    /\ dryRun \in BOOLEAN
    /\ chunkSize \in {1, MaxRows}
    /\ FirstCall

CleanNext ==
    \/ Setup
    \/ ChunkStep
    \/ ProcessRow
    \/ CreateLead
    \/ CreateRemark
    \/ CreateStageHistory

CleanSpec == CleanInit /\ [][CleanNext]_vars

(* ------------- the stage of a lead: the import and the routes ---------- *)

\* The leads the route calls name, the counselor they assign, the user who
\* changes a stage, and the stages asked for.
RouteLeads == {1}

RouteCounselorIds == {2}

RouteUserIds == {1}

RouteStages == {<<"C","o","n","t","a","c","t","e","d">>, YetToAssign}

\* What a route call leaves alone: everything but leads, stage_history and
\* the calls themselves.
routeFrame == <<rawLeads, dryRun, chunkSize, runNo, prev, issueCalls, users, remarks,
                pc, rosterVars, chunkingVars, chunkIndex, j, rowVars, counterVars,
                fieldIssues, result, raised, escaped, rejected>>

\* where(eq(leads.id, leadId)) finds a row.
LeadExists(leadId) == leadId \in 1..Len(leads)

\* A call goes on to its next statement.
Goto(c, at) == routeCalls' = [routeCalls EXCEPT ![c].at = at]

\* The write of leads.currentStage is noted for the call that made it.
NoteChange(leadId, after) ==
    stageChanges' = Append(stageChanges,
                           [leadId |-> leadId, before |-> leads[leadId].currentStage,
                            after |-> after])

\* assignLeadToCounselor is called and its update runs (routes.ts 734-739):
\* the lead gets the counselor and the stage Assigned.  Without a row of that
\* id the update changes nothing.
AssignUpdate ==
    /\ Len(routeCalls) < MaxRouteCalls
    /\ \E leadId \in RouteLeads, counselorId \in RouteCounselorIds :
          LET call == [op |-> "assign", leadId |-> leadId, newStage |-> <<"A","s","s","i","g","n","e","d">>,
                       userId |-> counselorId, at |-> "insert", lead |-> <<>>,
                       change |-> IF LeadExists(leadId) THEN Len(stageChanges) + 1 ELSE 0,
                       entry |-> 0]
          IN  /\ routeCalls' = Append(routeCalls, call)
              /\ IF LeadExists(leadId)
                 THEN /\ leads' = [leads EXCEPT ![leadId].counselorId = counselorId,
                                                ![leadId].currentStage = <<"A","s","s","i","g","n","e","d">>]
                      /\ NoteChange(leadId, <<"A","s","s","i","g","n","e","d">>)
                 ELSE UNCHANGED <<leads, stageChanges>>
    /\ UNCHANGED <<routeFrame, stageHistory>>

\* The insert of assignLeadToCounselor (routes.ts 741-748).  stage_history
\* references leads: without the lead the insert is rejected.
AssignInsert ==
    /\ \E c \in 1..Len(routeCalls) :
          /\ routeCalls[c].op = "assign"
          /\ routeCalls[c].at = "insert"
          /\ IF LeadExists(routeCalls[c].leadId)
             THEN /\ stageHistory' = Append(stageHistory,
                         [leadId |-> routeCalls[c].leadId, fromStage |-> Str(YetToAssign),
                          toStage |-> Str(<<"A","s","s","i","g","n","e","d">>), userId |-> routeCalls[c].userId,
                          reason |-> "Lead assigned to counselor",
                          createdAt |-> DateNow])
                  /\ routeCalls' = [routeCalls EXCEPT ![c].at = "returned",
                                                      ![c].entry = Len(stageHistory) + 1]
             ELSE /\ Goto(c, "thrown")
                  /\ UNCHANGED stageHistory
    /\ UNCHANGED <<routeFrame, leads, stageChanges>>

\* updateLeadStage is called and reads the lead (routes.ts 751-753).
StageRead ==
    /\ Len(routeCalls) < MaxRouteCalls
    /\ \E leadId \in RouteLeads, newStage \in RouteStages, userId \in RouteUserIds :
          routeCalls' = Append(routeCalls,
              [op |-> "stage", leadId |-> leadId, newStage |-> newStage,
               userId |-> userId,
               at |-> IF LeadExists(leadId) THEN "update" ELSE "thrown",
               lead |-> IF LeadExists(leadId) THEN leads[leadId].currentStage ELSE <<>>,
               change |-> 0, entry |-> 0])
    /\ UNCHANGED <<routeFrame, leads, stageHistory, stageChanges>>

\* The update of updateLeadStage (routes.ts 755-758).
StageUpdate ==
    /\ \E c \in 1..Len(routeCalls) :
          /\ routeCalls[c].op = "stage"
          /\ routeCalls[c].at = "update"
          /\ leads' = [leads EXCEPT ![routeCalls[c].leadId].currentStage =
                                        routeCalls[c].newStage]
          /\ NoteChange(routeCalls[c].leadId, routeCalls[c].newStage)
          /\ routeCalls' = [routeCalls EXCEPT ![c].at = "insert",
                                              ![c].change = Len(stageChanges) + 1]
    /\ UNCHANGED <<routeFrame, stageHistory>>

\* The insert of updateLeadStage (routes.ts 760-766): fromStage is the stage
\* read at the start of the call.
StageInsert ==
    /\ \E c \in 1..Len(routeCalls) :
          /\ routeCalls[c].op = "stage"
          /\ routeCalls[c].at = "insert"
          /\ stageHistory' = Append(stageHistory,
                 [leadId |-> routeCalls[c].leadId, fromStage |-> Str(routeCalls[c].lead),
                  toStage |-> Str(routeCalls[c].newStage), userId |-> routeCalls[c].userId,
                  reason |-> "", createdAt |-> DateNow])
          /\ routeCalls' = [routeCalls EXCEPT ![c].at = "returned",
                                              ![c].entry = Len(stageHistory) + 1]
    /\ UNCHANGED <<routeFrame, leads, stageChanges>>

\* One import of one row that asks for a stage, on an empty store, with the
\* route calls arriving while it runs and after it.
StageInit ==
    /\ rawLeads \in {<<RowFull>>, <<RowUnassigned>>}
    /\ dryRun = FALSE
    /\ chunkSize = 1
    /\ FirstCall

StageNext ==
    \/ Setup
    \/ ChunkStep
    \/ ProcessRow
    \/ CreateLead
    \/ CreateRemark
    \/ CreateStageHistory
    \/ AssignUpdate
    \/ AssignInsert
    \/ StageRead
    \/ StageUpdate
    \/ StageInsert

StageSpec == StageInit /\ [][StageNext]_vars

(* ------------------------------ properties ---------------------------- *)

\* The entries of the returned log that carry rowNumber r.
EntriesOf(r) ==
    {k \in 1..Len(result.validationLog) : result.validationLog[k].rowNumber = r}

\* The store's leads made for row r.
LeadsOf(r) == {l \in 1..Len(leads) : leads[l].rowNumber = r}

\* Row r lies in the chunk with index c.
InChunk(r, c) == c * chunkSize < r /\ r <= (c + 1) * chunkSize

ChunkFailureMessage == <<Msg("Chunk processing failed", <<>>, <<>>)>>

\* C1: when processBulkLeadImport returns from a call with a chunk size of 1
\* or more, imported + importedWithIssues + failed equals totalRows, the length
\* of the input array, in a dry run or not and whatever the store does.
CountsSumToTotalRows ==
    (pc = "done" /\ chunkSize >= 1) =>
        /\ result.batchSummary.totalRows = Len(rawLeads)
        /\ result.batchSummary.imported + result.batchSummary.importedWithIssues
               + result.batchSummary.failed = result.batchSummary.totalRows

\* C2: the returned validationLog has exactly one entry per input row, with
\* rowNumbers 1..N in ascending order.
LogHasOneEntryPerRow ==
    pc = "done" =>
        /\ Len(result.validationLog) = Len(rawLeads)
        /\ \A k \in 1..Len(result.validationLog) :
              result.validationLog[k].rowNumber = k

\* C3: no exception leaves processBulkLeadImport, whatever the store does and
\* whatever the rows hold, and what it returns has success = true.
NeverThrows ==
    /\ pc # "thrown"
    /\ pc = "done" => result.success = TRUE

\* C3 witness: the call returned although getAllUsers rejected, a store write
\* rejected and an exception reached the chunk-level catch.
ReturnedDespiteRejections ==
    /\ pc = "done"
    /\ result.success = TRUE
    /\ counselors = <<>>
    /\ rejected
    /\ escaped # {}
    /\ raised # {}

\* C4: the rows whose processing raised an exception are exactly the rows
\* logged Failed, every other row is logged Imported or ImportedWithIssues, and
\* every chunk counts as successful.
RowLevelIsolation ==
    pc = "done" =>
        /\ \A k \in 1..Len(result.validationLog) :
              (result.validationLog[k].status = "Failed")
                  <=> (result.validationLog[k].rowNumber \in raised)
        /\ \A r \in 1..Len(rawLeads) : EntriesOf(r) # {}
        /\ result.batchSummary.chunkStats.successfulChunks = Len(chunks)
        /\ result.batchSummary.chunkStats.failedChunks = 0

\* C5: when an exception leaves the row-level handler in chunk c, every entry
\* of the returned log whose rowNumber lies in c is Failed with the
\* chunk-failure message, failedChunks counts each such chunk once, and the
\* rows of the later chunks are processed.
ChunkFailureFailsWholeChunk ==
    pc = "done" =>
        /\ \A c \in escaped : \A k \in 1..Len(result.validationLog) :
              InChunk(result.validationLog[k].rowNumber, c) =>
                  /\ result.validationLog[k].status = "Failed"
                  /\ result.validationLog[k].errors = ChunkFailureMessage
        /\ result.batchSummary.chunkStats.failedChunks = Cardinality(escaped)
        /\ \A r \in 1..Len(rawLeads) : EntriesOf(r) # {}

\* C6: an entry of validationLog is Failed iff the processing of its row raised
\* an exception, ImportedWithIssues iff it raised none and warnings or
\* fixesApplied is not empty, and Imported otherwise.
StatusTellsOutcome ==
    \A k \in 1..Len(validationLog) :
        LET e == validationLog[k]
            issues == e.warnings # <<>> \/ e.fixesApplied # <<>>
        IN  /\ (e.status = "Failed") <=> (e.rowNumber \in raised)
            /\ (e.status = "ImportedWithIssues") <=> (e.rowNumber \notin raised /\ issues)
            /\ (e.status = "Imported") <=> (e.rowNumber \notin raised /\ ~issues)

\* C7: at the end of a run that is not a dry run, the store holds no lead,
\* remark or stage history made for a row logged Failed, and exactly one lead
\* made for a row logged Imported or ImportedWithIssues.  Stated for the runs
\* in which the row-level catch handled every exception.
PersistenceAllOrNothing ==
    (pc = "done" /\ ~dryRun /\ escaped = {}) =>
        \A k \in 1..Len(result.validationLog) :
            LET e == result.validationLog[k]
            IN  IF e.status = "Failed"
                THEN /\ LeadsOf(e.rowNumber) = {}
                     /\ \A m \in 1..Len(remarks) :
                           remarks[m].leadId \notin LeadsOf(e.rowNumber)
                     /\ \A m \in 1..Len(stageHistory) :
                           stageHistory[m].leadId \notin LeadsOf(e.rowNumber)
                ELSE Cardinality(LeadsOf(e.rowNumber)) = 1

\* Every row has one entry in the returned log, and the entry of a row that
\* raised no exception carries the normalized fields and the derived stage.
EveryRowClassified ==
    \A r \in 1..Len(rawLeads) :
        /\ Cardinality(EntriesOf(r)) = 1
        /\ \A k \in EntriesOf(r) :
              LET e == result.validationLog[k]
              IN  /\ e.status \in {"Imported", "ImportedWithIssues", "Failed"}
                  /\ e.status # "Failed" =>
                        /\ e.normalizedData.kind = "full"
                        /\ e.normalizedData.fields.currentStage.t = "string"
                        /\ e.normalizedData.fields.name.t = "string"

\* C8: a dry run calls none of createLead, createRemark and createStageHistory
\* (no step of it changes the store's leads, remarks or stage history), and it
\* still normalizes and classifies every row.
DryRunSkipsPersistence ==
    /\ [][dryRun => UNCHANGED <<leads, remarks, stageHistory>>]_vars
    /\ []((pc = "done" /\ dryRun) => EveryRowClassified)

\* C8 witness: a dry run of two or more rows returned, with a row logged Failed,
\* a row logged ImportedWithIssues, and an empty store.
DryRunReturned ==
    /\ pc = "done"
    /\ dryRun
    /\ Len(rawLeads) >= 2
    /\ \E k \in 1..Len(result.validationLog) : result.validationLog[k].status = "Failed"
    /\ \E k \in 1..Len(result.validationLog) :
          result.validationLog[k].status = "ImportedWithIssues"
    /\ leads = <<>> /\ remarks = <<>> /\ stageHistory = <<>>

\* The second call returned what the dry run before it returned: the same
\* log entries and the same counts.
SameAsDryRun ==
    /\ LogContent(result.validationLog) = prev.validationLog
    /\ result.batchSummary = prev.batchSummary

\* The second call read the roster the first call read.
SameRoster == prev.roster = rosterVars

Terminates == <>(pc = "done")

\* ceil(n / d) for d >= 1.
CeilDiv(n, d) == (n + d - 1) \div d

\* C11: once the chunking loop of a call with chunkSize >= 1 has ended, the
\* chunks are contiguous slices that cover the input in order without overlap,
\* each of length chunkSize but possibly the last (which is not empty), and the
\* totalChunks of the summary is ceil(N / chunkSize), 0 for an empty input.
ChunksCoverInput ==
    (pc \notin {"setup", "chunking"} /\ chunkSize >= 1) =>
        /\ \A c \in 1..Len(chunks) :
              /\ c < Len(chunks) => Len(chunks[c]) = chunkSize
              /\ Len(chunks[c]) \in 1..chunkSize
              /\ \A k \in 1..Len(chunks[c]) :
                    /\ (c - 1) * chunkSize + k <= Len(rawLeads)
                    /\ chunks[c][k] = rawLeads[(c - 1) * chunkSize + k]
        /\ \A r \in 1..Len(rawLeads) :
              \E c \in 1..Len(chunks) : \E k \in 1..Len(chunks[c]) :
                  (c - 1) * chunkSize + k = r
        /\ Summary(0, 0, 0, 0, 0).chunkStats.totalChunks = CeilDiv(Len(rawLeads), chunkSize)
        /\ rawLeads = <<>> => Summary(0, 0, 0, 0, 0).chunkStats.totalChunks = 0
        /\ pc = "done" =>
              result.batchSummary.chunkStats.totalChunks
                  = CeilDiv(Len(rawLeads), chunkSize)

\* C11 witness: three rows of two kinds cut with chunk size 2 into a chunk of
\* two rows and a last chunk of one.
ShortLastChunk ==
    /\ pc = "row"
    /\ chunkSize = 2
    /\ Len(rawLeads) = 3
    /\ rawLeads[1] # rawLeads[2]
    /\ Len(chunks) = 2
    /\ Len(chunks[2]) = 1

\* The lines of a report: the pieces between its line breaks; an empty report
\* has none.
Lines(s) ==
    LET breaks == {k \in 1..Len(s) : s[k] = "\n"}
        \* the position of the n-th line break; 0 and Len(s) + 1 bound the report
        break(n) == IF n = 0 THEN 0
                    ELSE IF n > Cardinality(breaks) THEN Len(s) + 1
                    ELSE CHOOSE k \in breaks : Cardinality({x \in breaks : x < k}) = n - 1
    IN  IF s = <<>> THEN <<>>
        ELSE [n \in 1..(Cardinality(breaks) + 1) |->
                 SubSeq(s, break(n - 1) + 1, break(n) - 1)]

\* The number written by the digits s starts with; -1 when it starts with none.
RECURSIVE ReadNumber(_, _)
ReadNumber(s, n) ==
    IF s # <<>> /\ Head(s) \in Digits
    THEN ReadNumber(Tail(s), (IF n < 0 THEN 0 ELSE 10 * n) + DigitVal[Head(s)])
    ELSE n

\* The row number a reader finds in a line of the CSV (its first quoted cell)
\* and in a line of the JSONL (the value of its first key, rowNumber).
CsvRowNumber(line) ==
    IF line # <<>> /\ Head(line) = "\"" THEN ReadNumber(Tail(line), 0 - 1) ELSE 0 - 1

JsonRowNumber(line) ==
    IF Len(line) > 5 /\ SubSeq(line, 1, 5) = <<"{", "\"", "rowNumber", "\"", ":">>
    THEN ReadNumber(SubSeq(line, 6, Len(line)), 0 - 1)
    ELSE 0 - 1

CsvHeaderLine ==
    <<"\"", "Row Number", "\"", ",", "\"", "Status", "\"", ",", "\"", "Fixes Applied",
      "\"", ",", "\"", "Warnings", "\"", ",", "\"", "Errors", "\"">>

\* The reports of log vl hold each of its row numbers once.
RoundTrip(vl) ==
    LET csv == Lines(generateValidationLogCSV(vl))
        jsonl == Lines(generateNormalizedPayloadJSONL(vl))
    IN  /\ Len(csv) = 1 + Len(vl)
        /\ csv[1] = CsvHeaderLine
        /\ \A e \in 1..Len(vl) :
              /\ Cardinality({k \in 2..Len(csv) : CsvRowNumber(csv[k]) = vl[e].rowNumber}) = 1
              /\ vl[e].normalizedData.kind # "undefined" =>
                    Cardinality({k \in 1..Len(jsonl) :
                                    JsonRowNumber(jsonl[k]) = vl[e].rowNumber}) = 1

\* C12: the validation-log CSV has one header row and one data row per log
\* entry, every rowNumber of the returned validationLog is the row number of
\* exactly one data row of the CSV, and of exactly one line of the
\* normalized-payload JSONL when its entry has normalizedData.
ReportsRoundTrip == pc = "done" => RoundTrip(result.validationLog)

\* C13: a dry run never logs Failed a row in which any of the fields, and any
\* number of them, are absent or blank and the others hold text (the rows of
\* GapInit).
AbsentFieldsNeverFail ==
    dryRun =>
        /\ \A k \in 1..Len(validationLog) : validationLog[k].status # "Failed"
        /\ raised = {}
        /\ pc = "done" => Len(result.validationLog) = 1

\* C13 witness: the dry run of a row with every field absent returned, and the
\* row is logged ImportedWithIssues.
AllAbsentRowReturned ==
    /\ pc = "done"
    /\ dryRun
    /\ rawLeads = <<RowEmpty>>
    /\ Len(result.validationLog) = 1
    /\ result.validationLog[1].status = "ImportedWithIssues"

\* The row gives neither studentName nor name.
NameMissing(row) == Probe(row.studentName) = "blank" /\ Probe(row.name) = "blank"

\* No field of the row holds a value of the wrong type (one without trim).
WellTyped(row) == \A f \in DOMAIN row : Probe(row[f]) # "throw"

\* How many times message m is in the list ms.
Count(ms, m) == Cardinality({k \in 1..Len(ms) : ms[k] = m})

\* An exception was raised for the row of entry e or inside its chunk.
ExceptionThrown(e) ==
    \/ e.rowNumber \in raised
    \/ \E c \in escaped : InChunk(e.rowNumber, c)

\* C14: a row with neither studentName nor name is normalized to the name
\* 'Unknown Student' with one error and one fix logged for it, and its entry is
\* not Failed unless an exception was thrown (never in a dry run of a row whose
\* fields are text or absent); an entry is Failed only if an exception was thrown.
MissingNameIsRecoverable ==
    \A k \in 1..Len(validationLog) :
        LET e == validationLog[k]
        IN  /\ e.status = "Failed" => ExceptionThrown(e)
            /\ NameMissing(e.originalData) =>
                  /\ (dryRun /\ WellTyped(e.originalData)) => ~ExceptionThrown(e)
                  /\ ~ExceptionThrown(e) =>
                        /\ e.status # "Failed"
                        /\ e.normalizedData.kind = "full"
                  /\ e.normalizedData.kind = "full" =>
                        /\ e.normalizedData.fields.name = Str(<<"U","n","k","n","o","w","n"," ","S","t","u","d","e","n","t">>)
                        /\ Count(e.errors,
                                 Msg("Missing required student name", <<>>, <<>>)) = 1
                        /\ Count(e.fixesApplied,
                                 Msg("Set default name for missing student name",
                                     <<>>, <<>>)) = 1

\* C14 witness: an import returned with a row that gave no name logged
\* ImportedWithIssues, with errors, and its lead written under the default name.
NamelessRowImported ==
    /\ pc = "done"
    /\ ~dryRun
    /\ \E k \in 1..Len(result.validationLog) :
          /\ NameMissing(result.validationLog[k].originalData)
          /\ result.validationLog[k].status = "ImportedWithIssues"
          /\ result.validationLog[k].errors # <<>>
          /\ \E l \in LeadsOf(result.validationLog[k].rowNumber) :
                leads[l].name = Str(<<"U","n","k","n","o","w","n"," ","S","t","u","d","e","n","t">>)

\* The row has a counselor hint that is not blank.
HasHint == normalized.counsellors.t = "string" /\ Trim(normalized.counsellors.s) # <<>>

\* The k-th counselor's lower-cased name contains the lower-cased hint or is
\* contained in it.
HintMatches(k) ==
    LET hint == ToLowerCase(Trim(normalized.counsellors.s))
        name == ToLowerCase(counselors[k].name)
    IN  Includes(name, hint) \/ Includes(hint, name)

\* C15: with a hint that is not blank, counselorId is the id of the first
\* counselor in roster order whose lower-cased name contains the lower-cased
\* hint or is contained in it; if there is none, the default counselor's id if
\* there is a default, and null (0) if not; without a hint it is null whatever
\* the roster and the default are.
CounselorAssignment ==
    pc = "ruled" =>
        LET id == businessLogicResult.counselorId
            matches == {k \in 1..Len(counselors) : HintMatches(k)}
        IN  /\ ~HasHint => id = 0
            /\ (HasHint /\ matches # {}) =>
                  \E k \in matches : /\ \A m \in matches : k <= m
                                     /\ id = counselors[k].id
            /\ (HasHint /\ matches = {} /\ defaultCounselor # NoUser) =>
                  id = defaultCounselor.id
            /\ (HasHint /\ matches = {} /\ defaultCounselor = NoUser) => id = 0

\* C15 witness: the hint matches the first and the second counselor of the
\* roster, the default is a third one, and the first is assigned.
FirstOfTwoMatches ==
    /\ pc = "ruled"
    /\ HasHint
    /\ Len(counselors) = 3
    /\ HintMatches(1) /\ HintMatches(2) /\ ~HintMatches(3)
    /\ defaultCounselor = counselors[3]
    /\ businessLogicResult.counselorId = counselors[1].id

\* The row asks for a stage: its currentStage is a string that is not blank.
RequestsStage(row) == row.currentStage.t = "string" /\ Trim(row.currentStage.s) # <<>>

\* The stage the rules are to derive for the row: the requested one (without
\* the white space around it), "Yet to Contact" when none is requested.
ExpectedStage(row) ==
    IF RequestsStage(row) THEN Trim(row.currentStage.s) ELSE YetToContact

\* C16: for every row that requests no stage (currentStage absent or blank)
\* the derived stage, in normalizedData.currentStage and in the persisted
\* lead, is "Yet to Contact", with or without a counselor; for a row that
\* requests a stage it is that stage.
StageDerivation ==
    /\ \A k \in 1..Len(validationLog) :
          validationLog[k].normalizedData.kind = "full" =>
              validationLog[k].normalizedData.fields.currentStage =
                  Str(ExpectedStage(validationLog[k].originalData))
    /\ \A l \in 1..Len(leads) :
          leads[l].currentStage = ExpectedStage(rawLeads[leads[l].rowNumber])

\* The step is a createLead that resolves.
LeadCreated == pc = "createLead" /\ Len(leads') = Len(leads) + 1

\* The row's next store call is createStageHistory for the lead of this row,
\* with the stage the rules derived.
StageHistoryCalled ==
    /\ pc' = "createStageHistory"
    /\ businessLogicResult' = businessLogicResult
    /\ newLead' \in 1..Len(leads')
    /\ leads'[newLead'].rowNumber = log.rowNumber
    /\ leads'[newLead'].currentStage = businessLogicResult.currentStage

\* One step of the run as C17 has it.
StageHistoryStep ==
    LET stage == businessLogicResult.currentStage
    IN  /\ (LeadCreated /\ stage # YetToAssign) =>
              \/ StageHistoryCalled
              \/ pc' = "createRemark" /\ newLead' = Len(leads')
        /\ (pc = "createRemark" /\ stage # YetToAssign) => StageHistoryCalled
        /\ (pc # "createStageHistory" /\ pc' = "createStageHistory") =>
              /\ ~dryRun
              /\ pc \in {"createLead", "createRemark"}
              /\ stage # YetToAssign
              /\ StageHistoryCalled
        /\ stageHistory' # stageHistory =>
              /\ pc = "createStageHistory"
              /\ Len(stageHistory') = Len(stageHistory) + 1
              /\ SubSeq(stageHistory', 1, Len(stageHistory)) = stageHistory
              /\ stageHistory'[Len(stageHistory')].leadId = newLead
              /\ stageHistory'[Len(stageHistory')].fromStage = Null
              /\ stageHistory'[Len(stageHistory')].toStage = Str(stage)

\* C17: in a run that is not a dry run, for every row whose createLead
\* succeeded createStageHistory is called exactly when the row's stage is not
\* "Yet to Assign", with fromStage null, toStage the row's stage and leadId the
\* id of the row's lead; it is never called for a row with "Yet to Assign".
StageHistoryExactlyWhenStaged == [][StageHistoryStep]_vars

\* The id the rules are to assign for a normalized hint with the roster cs
\* and the default dflt (0: none).
CounselorFor(hint, cs, dflt) ==
    IF hint.t # "string" \/ Trim(hint.s) = <<>> THEN 0
    ELSE LET h == ToLowerCase(Trim(hint.s))
             matches == {k \in 1..Len(cs) :
                            \/ Includes(ToLowerCase(cs[k].name), h)
                            \/ Includes(h, ToLowerCase(cs[k].name))}
         IN  IF matches # {}
             THEN cs[CHOOSE k \in matches : \A m \in matches : k <= m].id
             ELSE dflt.id

\* Every row handled so far got its counselor from the roster read during
\* setup, and every lead the manager id read then.
RowsUseSnapshot ==
    /\ \A k \in 1..Len(validationLog) :
          validationLog[k].normalizedData.kind = "full" =>
              validationLog[k].normalizedData.counselorId =
                  CounselorFor(validationLog[k].normalizedData.fields.counsellors,
                               counselors, defaultCounselor)
    /\ \A l \in 1..Len(leads) :
          /\ leads[l].managerId = managerId
          /\ leads[l].counselorId =
                CounselorFor(leads[l].counsellors, counselors, defaultCounselor)

\* getAllUsers is awaited before any row is handled.
SetupComesFirst ==
    pc = "setup" => (chunks = <<>> /\ validationLog = <<>> /\ log = NoLog)

\* One step of a call as C18 has it: the roster is read in the step that
\* leaves "setup", as the store's users are then (or not at all when the
\* lookup fails), the call does not come back to "setup", and no later step
\* changes the roster.
SnapshotStep ==
    /\ (pc = "setup" /\ pc' # "setup") =>
          \/ /\ ~lookupFailed'
             /\ managerId' = FindManagerId(users)
             /\ counselors' = FilterCounselors(users)
             /\ defaultCounselor' = FindDefaultCounselor(FilterCounselors(users))
          \/ /\ lookupFailed'
             /\ UNCHANGED <<managerId, counselors, defaultCounselor>>
    /\ (pc \notin {"setup", "done"}) => (pc' # "setup" /\ UNCHANGED rosterVars)

\* C18: in one run the users are read once, before the first row is handled;
\* the manager id, the roster and the default counselor computed from them
\* serve every row unchanged, and users the store gets while the run is under
\* way change no row's counselorId or managerId.
RosterSnapshot ==
    /\ [](SetupComesFirst /\ RowsUseSnapshot)
    /\ [][SnapshotStep]_vars

\* C18 witness: an import returned whose row asked for a counselor the store
\* got after the roster was read: the row has the default counselor.
UserCreatedAfterSnapshot ==
    /\ pc = "done"
    /\ ~dryRun
    /\ ~lookupFailed
    /\ FilterCounselors(users) # counselors
    /\ \E l \in 1..Len(leads) :
          /\ rawLeads[leads[l].rowNumber] = RowForVarsha
          /\ leads[l].counselorId = defaultCounselor.id
          /\ leads[l].counselorId # NewCounselor.id
          /\ leads[l].managerId = managerId

\* C19: when getAllUsers fails during setup the run is not aborted: every row
\* is handled, with a null managerId, an empty roster and no default
\* counselor, so that every row's counselorId is null.
LookupFailureIsSurvived ==
    lookupFailed =>
        /\ pc # "thrown"
        /\ managerId = 0
        /\ counselors = <<>>
        /\ defaultCounselor = NoUser
        /\ \A k \in 1..Len(validationLog) :
              validationLog[k].normalizedData.kind = "full" =>
                  validationLog[k].normalizedData.counselorId = 0
        /\ \A l \in 1..Len(leads) :
              leads[l].counselorId = 0 /\ leads[l].managerId = 0
        /\ pc = "done" =>
              /\ result.success = TRUE
              /\ \A r \in 1..Len(rawLeads) : EntriesOf(r) # {}

\* C19 witness: an import of two rows returned after getAllUsers failed; the
\* row that names a counselor has a lead without counselor and manager.
ImportedWithoutRoster ==
    /\ pc = "done"
    /\ lookupFailed
    /\ ~dryRun
    /\ Len(rawLeads) = 2
    /\ \A r \in 1..2 : EntriesOf(r) # {}
    /\ \E l \in 1..Len(leads) :
          /\ rawLeads[leads[l].rowNumber] = RowFull
          /\ leads[l].counselorId = 0
          /\ leads[l].managerId = 0

\* The messages addFieldIssue was called with for the field, in call order.
IssuesOf(fieldName) ==
    LET mine == SelectSeq(issueCalls, LAMBDA c : c.fieldName = fieldName)
    IN  [k \in 1..Len(mine) |-> mine[k].issue]

\* s is the start of t.
IsPrefix(s, t) == Len(s) <= Len(t) /\ SubSeq(t, 1, Len(s)) = s

\* The tally tells the calls made so far.
TallyMatchesCalls ==
    \A f \in IssueFields :
        LET n == Len(IssuesOf(f))
        IN  /\ fieldIssues[f].count = n
            /\ fieldIssues[f].samples = SubSeq(IssuesOf(f), 1, IF n < 5 THEN n ELSE 5)

\* C20: after any sequence of addFieldIssue calls the count of every field is
\* the number of calls made for it and its samples are the first min(count, 5)
\* messages in call order; a sample once added is neither removed nor moved.
FieldIssueTally ==
    /\ [](pc = "tally" => TallyMatchesCalls)
    /\ [][pc = "tally" =>
            \A f \in IssueFields : IsPrefix(fieldIssues[f].samples, fieldIssues'[f].samples)]_vars

\* C20 witness: six calls were made for uid, the sixth with another message
\* than the fifth, and one for phone: uid has five samples, phone one.
SixthSampleDropped ==
    /\ pc = "tally"
    /\ fieldIssues["uid"].count = 6
    /\ Len(fieldIssues["uid"].samples) = 5
    /\ IssuesOf("uid")[6] # IssuesOf("uid")[5]
    /\ fieldIssues["phone"].count = 1
    /\ Len(fieldIssues["phone"].samples) = 1

\* The text a field block hands to its normalizer: the field without the
\* white space around it.
FieldInput == Trim(rawLeads[1].country.s)

\* The messages of ms whose fixed text is k.
Told(ms, k) == SelectSeq(ms, LAMBDA m : m.k = k)

\* The digits of s.
DigitsOf(s) == SelectSeq(s, LAMBDA c : c \in Digits)

\* The value has digits and plus signs only.
PhoneCharsOnly == \A k \in 1..Len(normalized.phone.s) :
                     normalized.phone.s[k] \in Digits \cup {"+"}

\* A plus sign stands at the first place only.
PlusLeadsOnly == \A k \in 2..Len(normalized.phone.s) : normalized.phone.s[k] # "+"

\* A value with fewer than 10 digits is returned with a warning and no error.
ShortPhoneKept ==
    Len(DigitsOf(normalized.phone.s)) < 10 =>
        /\ normalized.phone.t = "string"
        /\ log.warnings = <<Msg("Phone number appears to be too short", FieldInput, <<>>)>>
        /\ log.errors = <<>>

\* A fix is logged exactly when cleaning changed the text.
PhoneFixIffCleaned ==
    log.fixesApplied =
        IF normalized.phone.s # FieldInput
        THEN <<Msg("Cleaned phone number", FieldInput, normalized.phone.s)>>
        ELSE <<>>

\* C21: the normalized phone of a phone that is not blank has digits only,
\* with at most one "+" and that one at the first place; with fewer than 10
\* digits it is still returned, with a warning and no error; a fix is logged
\* exactly when cleaning changed the text.
PhoneNormalization ==
    pc = "phone" =>
        (PhoneCharsOnly /\ PlusLeadsOnly /\ ShortPhoneKept /\ PhoneFixIffCleaned)

\* The places of the alias table whose key is the lower-cased trimmed text.
AliasesOf(x) == {k \in 1..Len(CountryMap) : CountryMap[k][1] = Trim(ToLowerCase(x))}

\* A country that is an alias gets its ISO-2 code, and a fix is logged.
AliasIsMapped ==
    AliasesOf(FieldInput) # {} =>
        \E k \in AliasesOf(FieldInput) :
            /\ normalized.country = Str(CountryMap[k][2])
            /\ log.fixesApplied = <<Msg("Normalized country", FieldInput, CountryMap[k][2])>>

\* A country that is no alias is kept as it is, with a warning and no error.
UnknownCountryKept ==
    AliasesOf(FieldInput) = {} =>
        /\ normalized.country = Str(FieldInput)
        /\ log.warnings = <<Msg("Country could not be normalized to ISO code",
                                FieldInput, <<>>)>>
        /\ log.errors = <<>>

\* C22: a country that is not blank and whose lower-cased trimmed form is a
\* key of the alias table becomes the ISO-2 code of that key, and a fix is
\* logged; any other country is returned unchanged, with a warning and with
\* nothing added to errors.
CountryNormalization == pc = "country" => (AliasIsMapped /\ UnknownCountryKept)

Seasons == {<<"S","p","r","i","n","g">>, <<"S","u","m","m","e","r">>, <<"F","a","l","l">>, <<"W","i","n","t","e","r">>}

\* v has the form <4-digit-year>-<Season>.
Canonical(v) ==
    /\ Len(v) > 5
    /\ \A k \in 1..4 : v[k] \in Digits
    /\ v[5] = "-"
    /\ SubSeq(v, 6, Len(v)) \in Seasons

\* C23: the normalized intake of an intake that is not blank has the form
\* <4-digit-year>-<Season>, Season being Spring, Summer, Fall or Winter; an
\* intake that has this form already is returned unchanged, with no fix
\* logged and no tally entry, and so is the normalized intake when it is
\* normalized again.
IntakeIdempotent ==
    pc = "intake" =>
        /\ normalized.intake.t = "string"
        /\ Canonical(normalized.intake.s)
        /\ Canonical(FieldInput) =>
              /\ normalized.intake.s = FieldInput
              /\ log.fixesApplied = <<>>
              /\ fieldIssues["intake"].count = 0
        /\ normalizeIntake(normalized.intake.s, log, fieldIssues) =
              Out(normalized.intake.s, log, fieldIssues)

\* C23 witness: the canonical intake 2025-Winter went through the normalizer
\* and came back as it was, with nothing logged.
CanonicalIntakeKept ==
    /\ pc = "intake"
    /\ FieldInput = <<"2","0","2","5","-","W","i","n","t","e","r">>
    /\ normalized.intake = Str(<<"2","0","2","5","-","W","i","n","t","e","r">>)
    /\ log.fixesApplied = <<>>
    /\ fieldIssues["intake"].count = 0

\* The email as the row holds it.
RawEmail == rawLeads[1].email.s

\* An email without the shape local@domain.tld becomes null, with a warning;
\* the row is not failed.
InvalidEmailDropped ==
    ~EmailRegexTest(Trim(ToLowerCase(RawEmail))) =>
        /\ normalized.email = Null
        /\ Len(Told(log.warnings, "Email appears to be invalid format")) = 1
        /\ log.errors = <<>>
        /\ log.status # "Failed"

\* An email with the shape becomes its lower-cased trimmed form.
ValidEmailLowered ==
    EmailRegexTest(Trim(ToLowerCase(RawEmail))) =>
        normalized.email = Str(Trim(ToLowerCase(RawEmail)))

\* A fix is logged whenever trimming or casing changed a valid email.
EmailFixWhenChanged ==
    (EmailRegexTest(Trim(ToLowerCase(RawEmail))) /\ Trim(ToLowerCase(RawEmail)) # RawEmail)
        => Len(Told(log.fixesApplied, "Normalized email")) = 1

\* C24: an email that is not blank and whose lower-cased trimmed form has not
\* the shape local@domain.tld becomes null, with a warning, and the row is not
\* failed; one that has the shape becomes its lower-cased trimmed form, and a
\* fix is logged whenever that differs from the input by trimming or casing.
EmailNormalization ==
    pc = "email" => (InvalidEmailDropped /\ ValidEmailLowered /\ EmailFixWhenChanged)

\* The row a store write is awaited for.
RowInFlight == log.rowNumber

\* The rowNumber of the lead a remark or a stage history entry belongs to.
RowOfLead(leadId) == leads[leadId].rowNumber

\* The leads were created in ascending rowNumber order.
LeadsAscending ==
    \A a, b \in 1..Len(leads) : a < b => leads[a].rowNumber < leads[b].rowNumber

\* While a write of row n is awaited no write of a later row was issued, and
\* the writes of row n that come before it have completed.
WritesInRowOrder ==
    /\ pc = "createLead" =>
          /\ \A l \in 1..Len(leads) : leads[l].rowNumber < RowInFlight
          /\ \A r \in 1..Len(remarks) : RowOfLead(remarks[r].leadId) < RowInFlight
          /\ \A h \in 1..Len(stageHistory) :
                RowOfLead(stageHistory[h].leadId) < RowInFlight
    /\ pc \in {"createRemark", "createStageHistory"} =>
          /\ newLead = Len(leads)
          /\ RowOfLead(newLead) = RowInFlight
          /\ \A h \in 1..Len(stageHistory) :
                RowOfLead(stageHistory[h].leadId) < RowInFlight
    /\ pc = "createRemark" =>
          \A r \in 1..Len(remarks) : RowOfLead(remarks[r].leadId) < RowInFlight
    /\ pc = "createStageHistory" =>
          /\ \A r \in 1..Len(remarks) : RowOfLead(remarks[r].leadId) <= RowInFlight
          /\ WantsRemark => \E r \in 1..Len(remarks) : remarks[r].leadId = newLead

\* A step issues one write at most, the one the run is waiting for.
OneWriteAtATime ==
    /\ leads' # leads => (pc = "createLead" /\ Len(leads') = Len(leads) + 1
                           /\ UNCHANGED <<remarks, stageHistory>>)
    /\ remarks' # remarks => (pc = "createRemark" /\ Len(remarks') = Len(remarks) + 1
                               /\ UNCHANGED <<leads, stageHistory>>)
    /\ stageHistory' # stageHistory =>
          (pc = "createStageHistory" /\ Len(stageHistory') = Len(stageHistory) + 1
           /\ UNCHANGED <<leads, remarks>>)

\* C25: in a run that is not a dry run the store writes are issued one at a
\* time; createLead of a row completes before its createRemark, and that
\* before its createStageHistory; every write of row n completes or fails
\* before a write of row n + 1 is issued, so that the leads are created in
\* ascending rowNumber order.
PersistenceOrdering ==
    /\ [](LeadsAscending /\ WritesInRowOrder)
    /\ [][OneWriteAtATime]_vars

\* C25 witness: an import of two rows returned with a lead, a remark and a
\* stage history entry for each of them.
TwoRowsFullyWritten ==
    /\ pc = "done"
    /\ ~dryRun
    /\ Len(leads) = 2
    /\ Len(remarks) = 2
    /\ Len(stageHistory) = 2
    /\ remarks[1].leadId = 1 /\ remarks[2].leadId = 2
    /\ stageHistory[1].leadId = 1 /\ stageHistory[2].leadId = 2

\* The rows counted so far.
RowsCounted == importedCount + importedWithIssuesCount + failedCount

\* One step of a run as C26 has it.
LogGrowsStep ==
    pc # "done" =>
        /\ IsPrefix(validationLog, validationLog')
        /\ importedCount' >= importedCount
        /\ importedWithIssuesCount' >= importedWithIssuesCount
        /\ failedCount' >= failedCount
        /\ successfulChunks' >= successfulChunks
        /\ failedChunks' >= failedChunks
        /\ RowsCounted' - RowsCounted = Len(validationLog') - Len(validationLog)
        /\ Len(validationLog') = Len(validationLog) + 1 =>
              \/ /\ importedCount' = importedCount + 1
                 /\ UNCHANGED <<importedWithIssuesCount, failedCount>>
              \/ /\ importedWithIssuesCount' = importedWithIssuesCount + 1
                 /\ UNCHANGED <<importedCount, failedCount>>
              \/ /\ failedCount' = failedCount + 1
                 /\ UNCHANGED <<importedCount, importedWithIssuesCount>>

\* C26: during a run no step removes or moves an entry of validationLog or
\* changes the status of one, the five counters never decrease, and a step
\* that appends one entry adds one to exactly one of importedCount,
\* importedWithIssuesCount and failedCount.
LogAppendOnly == [][LogGrowsStep]_vars

\* C26 witness: a chunk of two rows failed after its first row was logged:
\* the log holds three entries, the first of them not Failed.
LogGrewPastChunkFailure ==
    /\ pc = "done"
    /\ Len(rawLeads) = 2
    /\ Len(validationLog) = 3
    /\ validationLog[1].status # "Failed"
    /\ failedCount = 2
    /\ failedChunks = 1

\* C27: a row in which every field is present and canonical already (uid,
\* name and stage not blank, a date that parses as it is, an intake such as
\* 2025-Fall, an ISO-2 country code such as US, a phone of 10 digits or more
\* and nothing else, a valid lower-case email) ends, when no store call fails,
\* with status Imported and with empty fixesApplied, warnings and errors.
CleanRowIsImported ==
    (pc = "done" /\ ~rejected /\ ~lookupFailed /\ rawLeads[1] \in CleanRows) =>
        \A k \in 1..Len(result.validationLog) :
            /\ result.validationLog[k].status = "Imported"
            /\ result.validationLog[k].fixesApplied = <<>>
            /\ result.validationLog[k].warnings = <<>>
            /\ result.validationLog[k].errors = <<>>

\* The fields C28 is about.
AuditedFields == {"uid", "name", "intake", "country", "phone", "email"}

\* The fixed texts of the log messages written for a field.
MessagesFor(f) ==
    CASE f = "uid" -> {"Generated missing UID"}
      [] f = "name" -> {"Missing required student name",
                        "Set default name for missing student name"}
      [] f = "intake" -> {"Added missing year to intake",
                          "Added default season Fall to intake", "Normalized intake",
                          "Missing intake information"}
      [] f = "country" -> {"Normalized country",
                           "Country could not be normalized to ISO code",
                           "Missing country information"}
      [] f = "phone" -> {"Phone number appears to be too short", "Cleaned phone number",
                         "Missing phone number"}
      [] f = "email" -> {"Email appears to be invalid format", "Normalized email"}

\* The raw value of a field: of the two columns a name or a phone can come
\* from, the one the row fills.
RawValue(row, f) ==
    CASE f = "name" -> IF Probe(row.studentName) = "present" THEN row.studentName
                       ELSE row.name
      [] f = "phone" -> IF Probe(row.mobileNumber) = "present" THEN row.mobileNumber
                        ELSE row.phone
      [] OTHER -> row[f]

\* The normalized value is not the raw one: another text, a default, or null
\* for a text.  Null for an absent field is no change.
Changed(raw, value) ==
    IF raw.t = "string" THEN value # raw
    ELSE value.t # "null"

\* The entry holds a message written for the field.
Audited(lg, f) ==
    \E list \in {lg.fixesApplied, lg.warnings, lg.errors} :
        \E k \in 1..Len(list) : list[k].k \in MessagesFor(f)

\* C28: for uid, name, intake, country, phone and email of every row, if the
\* normalized value is not the raw value of the field (white space removed
\* around it, a default or null put in its place) the row's log holds an
\* entry in fixesApplied, warnings or errors that was added for that field.
NoSilentChange ==
    \A k \in 1..Len(validationLog) :
        validationLog[k].normalizedData.kind = "full" =>
            \A f \in AuditedFields :
                Changed(RawValue(validationLog[k].originalData, f),
                        validationLog[k].normalizedData.fields[f])
                    => Audited(validationLog[k], f)

\* C29: at return every chunk is counted once, as successful or as failed:
\* successfulChunks + failedChunks = totalChunks, and the failed chunks are as
\* many as the chunks in which an exception left the row-level handler, the
\* other chunks being the successful ones.
ChunksCountedOnce ==
    pc = "done" =>
        LET stats == result.batchSummary.chunkStats
        IN  /\ stats.totalChunks = Len(chunks)
            /\ stats.successfulChunks + stats.failedChunks = stats.totalChunks
            /\ stats.failedChunks = Cardinality(escaped)
            /\ stats.successfulChunks = Cardinality((0..(Len(chunks) - 1)) \ escaped)
            /\ escaped \subseteq 0..(Len(chunks) - 1)

\* A call returned with one chunk counted as failed and one as successful.
OneChunkOfEachKind ==
    /\ pc = "done"
    /\ result.batchSummary.chunkStats.successfulChunks = 1
    /\ result.batchSummary.chunkStats.failedChunks = 1
    /\ chunkSize < Len(rawLeads)

\* The route calls that wrote the k-th entry of stage_history: none for an
\* entry written by the import.
WritersOf(k) == {c \in 1..Len(routeCalls) : routeCalls[c].entry = k}

\* The stage a lead was created with: the stage before the first change a route
\* call made to it, its stage if there was none.
CreatedStage(leadId) ==
    LET mine == SelectSeq(stageChanges, LAMBDA ch : ch.leadId = leadId)
    IN  IF mine = <<>> THEN leads[leadId].currentStage ELSE mine[1].before

\* The entry tells the change of currentStage made by the call that wrote it.
TellsItsChange(k) ==
    \A c \in WritersOf(k) :
        /\ routeCalls[c].change # 0
        /\ stageHistory[k].fromStage = Str(stageChanges[routeCalls[c].change].before)
        /\ stageHistory[k].toStage = Str(stageChanges[routeCalls[c].change].after)

\* The entry written at import has no fromStage and the stage the lead was
\* created with as its toStage.
TellsTheCreation(k) ==
    WritersOf(k) = {} =>
        /\ stageHistory[k].fromStage = Null
        /\ stageHistory[k].toStage = Str(CreatedStage(stageHistory[k].leadId))

\* C30: whatever the interleaving of the import, assignLeadToCounselor and
\* updateLeadStage, the fromStage of every stage_history entry is the
\* currentStage the lead had just before the change the entry is about (null
\* for the entry written at import) and its toStage the currentStage the lead
\* had just after it.
StageHistoryConsistent ==
    \A k \in 1..Len(stageHistory) : TellsItsChange(k) /\ TellsTheCreation(k)

\* The entries of the import are right in every interleaving.
ImportEntriesConsistent == \A k \in 1..Len(stageHistory) : TellsTheCreation(k)

\* The entries of updateLeadStage are right while no other call changed the
\* lead between its read and its update.
StageEntriesConsistentAlone ==
    \A k \in 1..Len(stageHistory) : \A c \in WritersOf(k) :
        (routeCalls[c].op = "stage"
            /\ routeCalls[c].lead = stageChanges[routeCalls[c].change].before)
                => TellsItsChange(k)

\* The entries of assignLeadToCounselor are right for a lead that was yet to
\* assign when the call changed it.
AssignEntriesConsistentWhenUnassigned ==
    \A k \in 1..Len(stageHistory) : \A c \in WritersOf(k) :
        (routeCalls[c].op = "assign" /\ routeCalls[c].change # 0
            /\ stageChanges[routeCalls[c].change].before = YetToAssign)
                => TellsItsChange(k)

=============================================================================
